---------------------------- MODULE Spec2Model ----------------------------
(* Cross-venue arbitrage strategy (arbitrage_strategy.py) and its risk     *)
(* rule engine (risk_manager.py).                                          *)
(*                                                                         *)
(* Units: prices, spreads and PnL are integers in hundredths of a quote    *)
(* unit (100.60 is 10060, the 0.01 offset is 1, the 0.5 threshold is 50);  *)
(* order sizes and positions are in thousandths of a lot (0.01 is 10);     *)
(* times are whole seconds of datetime.now().                              *)
EXTENDS Integers, Sequences, FiniteSets, TLC

\* ------------------------------------------------------------- bounds
MaxAdvances == 1
MaxOrderId == 1
MaxChase == 2
MaxEvents == 1
MaxDays == 1
MaxTrades == 3
MaxRules == 4
MaxDenials == 103

\* ---------------------------------------------------------- constants
\* Python's None (and an absent keyword argument / dict key): a value
\* outside every price, spread, position, time and order id of the model.
None == -1000000

AGGRESSION_OFFSET == 1
DEFAULT_OPEN_THRESHOLD == 50
DEFAULT_CLOSE_THRESHOLD == 30
DEFAULT_ORDER_SIZE == 10
DEFAULT_MAX_CHASE_COUNT == 5
DEFAULT_TRADE_TIMEOUT == 3
MAX_EVENT_HISTORY == 100

BYBIT_ACCOUNT == "bybit_1"
BINANCE_ACCOUNT == "binance_1"
STRATEGY_ID == "arb_bybit_1_binance_1"

IDLE == "idle"
OPENING == "opening"
OPENED == "opened"
CLOSING == "closing"
CLOSED == "closed"

Abs(x) == IF x < 0 THEN -x ELSE x

\* Python truthiness of an optional number: None and 0 are false.
Truthy(x) == x # None /\ x # 0

\* ------------------------------------------------------------- inputs
\* A tick is the dict a gateway delivers; a field is None when the key is
\* absent, which is what dict.get returns.
Tick(b, a) == [type |-> "dict", bid |-> b, ask |-> a]

BybitTicks ==
    { Tick(10020, 10060),     \* ask 100.60: spread 0.60 over a 100.00 bid
      Tick(10010, 10020),     \* ask 100.20: spread reverted to 0.20
      Tick(10070, 10040) }    \* a crossed quote (bid above ask)

BinanceTicks ==
    { Tick(10000, 10010) }    \* bid 100.00 / ask 100.10

\* the tick delivered through update_tick
Ticks == { Tick(10050, 10060) }

Platforms == {"bybit", "binance", "other"}

OrderIds == 1..MaxOrderId
\* what order_callback returns for a new order: an order id, or None when
\* the venue rejects it
Returns == OrderIds \cup {None}

\* trade_data['position'] of a fill notification; None: the key is absent
TradePositions == {None, -10, 0, 10}

\* keyword arguments of set_parameters seen by the model
NoChange == [open_threshold |-> None, close_threshold |-> None,
             order_size |-> None, max_chase_count |-> None,
             trade_timeout |-> None]

ParamUpdates ==
    { [NoChange EXCEPT !.order_size = 20],
      [NoChange EXCEPT !.trade_timeout = 1],
      [NoChange EXCEPT !.open_threshold = -50],
      [NoChange EXCEPT !.close_threshold = -30],
      [NoChange EXCEPT !.order_size = -10],
      [NoChange EXCEPT !.trade_timeout = -1],
      [NoChange EXCEPT !.open_threshold = 60, !.max_chase_count = -1] }

\* configurations handed to configure_default_rules
\* app.create_arbitrage_pair: max_position 1.0, max_order_size 0.1,
\* max_daily_loss 100.0, max_chase_count 5
DefaultRiskConfig == [max_position |-> 1000, max_order_size |-> 100,
                      max_daily_loss |-> 10000, max_chase_count |-> 5]

RiskConfigs ==
    { DefaultRiskConfig,
      [DefaultRiskConfig EXCEPT !.max_chase_count = 1],
      [DefaultRiskConfig EXCEPT !.max_order_size = 5] }

\* arguments of the RiskManager's checks: the account, the signed order
\* size, the position held, the realised PnL of a trade, the chase count
Accounts == {STRATEGY_ID}
OrderSizes == {10, -200}
CurrentPositions == {0, 1000}
LOSS == 6000
TradePnls == {-LOSS, LOSS}
ChaseCounts == {0, 5}

\* strategy, pair, spread, rm: the ArbitrageStrategy, its ArbitragePair and
\*   SpreadData, and the RiskManager
\* now, today: datetime.now() and its date
\* calls, exc: the order_callback calls made by the latest handler
\*   invocation, in order, and the exception it raised ("none" if it returned)
\* opened: history, the direction of the latest opening order pair
\* lock: the strategy's threading.Lock, FREE or the thread that holds it
\* pc: for each thread calling into the strategy, where it is in its call
VARIABLES strategy, pair, spread, rm, now, today, calls, exc, opened, lock, pc

vars == <<strategy, pair, spread, rm, now, today, calls, exc, opened, lock, pc>>

\* ======================================================== SpreadData

SpreadData_init ==
    [bybit_bid |-> None, bybit_ask |-> None,
     binance_bid |-> None, binance_ask |-> None,
     spread_positive |-> None, spread_negative |-> None,
     last_update |-> None]

\* The SpreadData object itself, passed where a tick dict is expected: it
\* has no .get, so the first .get on it raises AttributeError.
SpreadDataObject == [type |-> "SpreadData"]

\* the two "if ... is not None" recomputations that end SpreadData.update
RecomputeSpreads(sd) ==
    [sd EXCEPT
       !.spread_positive =
          IF sd.bybit_ask # None /\ sd.binance_bid # None
          THEN sd.bybit_ask - sd.binance_bid ELSE @,
       !.spread_negative =
          IF sd.binance_ask # None /\ sd.bybit_bid # None
          THEN sd.binance_ask - sd.bybit_bid ELSE @]

\* SpreadData.update(bybit_tick, binance_tick) at time t. The statements
\* run in order; the result carries the snapshot as the raise left it.
SpreadData_update(sd, bybit_tick, binance_tick, t) ==
    IF bybit_tick.type # "dict"
    THEN [sd |-> sd, exc |-> "AttributeError"]
    ELSE IF binance_tick.type # "dict"
    THEN [sd |-> [sd EXCEPT !.bybit_bid = bybit_tick.bid,
                            !.bybit_ask = bybit_tick.ask],
          exc |-> "AttributeError"]
    ELSE [sd |-> RecomputeSpreads(
                   [sd EXCEPT !.bybit_bid = bybit_tick.bid,
                              !.bybit_ask = bybit_tick.ask,
                              !.binance_bid = binance_tick.bid,
                              !.binance_ask = binance_tick.ask,
                              !.last_update = t]),
          exc |-> "none"]

is_valid(sd) ==
    /\ sd.bybit_bid # None
    /\ sd.bybit_ask # None
    /\ sd.binance_bid # None
    /\ sd.binance_ask # None

\* ========================================================= RiskRule

Rule(kind, limit, day) ==
    [kind |-> kind, enabled |-> TRUE, violations |-> 0,
     last_violation_time |-> None, limit |-> limit,
     daily_pnl |-> 0, reset_date |-> day]

MaxPositionRiskRule(max_position) == Rule("MaxPosition", max_position, None)
MaxOrderSizeRiskRule(max_order_size) == Rule("MaxOrderSize", max_order_size, None)
DailyLossRiskRule(max_daily_loss, day) == Rule("DailyLoss", max_daily_loss, day)
MaxChaseOrderRiskRule(max_chase_count) == Rule("MaxChaseOrder", max_chase_count, None)

\* The keyword arguments of one rule.check call; None: not passed.
Kwargs(order_size, current_position, trade_pnl, chase_count) ==
    [order_size |-> order_size, current_position |-> current_position,
     trade_pnl |-> trade_pnl, chase_count |-> chase_count]

Allowed(rule) == [exc |-> FALSE, passed |-> TRUE, msg |-> <<>>, rule |-> rule]
Denied(rule, msg) == [exc |-> FALSE, passed |-> FALSE, msg |-> msg, rule |-> rule]
\* a required parameter that is not among the keyword arguments: TypeError
Raised(rule) == [exc |-> TRUE, passed |-> TRUE, msg |-> <<>>, rule |-> rule]

MaxPositionRiskRule_check(rule, kw) ==
    IF kw.current_position = None THEN Raised(rule)
    ELSE IF ~rule.enabled THEN Allowed(rule)
    ELSE IF Abs(kw.current_position) >= rule.limit
         THEN Denied(rule, <<"Position", kw.current_position, rule.limit>>)
         ELSE Allowed(rule)

\* variant of MaxOrderSizeRiskRule.check that compares the signed size
MaxOrderSizeRiskRule_check_signed(rule, kw) ==
    IF kw.order_size = None THEN Raised(rule)
    ELSE IF ~rule.enabled THEN Allowed(rule)
    ELSE IF kw.order_size > rule.limit
         THEN Denied(rule, <<"Order size", kw.order_size, rule.limit>>)
         ELSE Allowed(rule)

MaxOrderSizeRiskRule_check(rule, kw) ==
    IF kw.order_size = None THEN Raised(rule)
    ELSE IF ~rule.enabled THEN Allowed(rule)
    ELSE IF Abs(kw.order_size) > rule.limit
         THEN Denied(rule, <<"Order size", kw.order_size, rule.limit>>)
         ELSE Allowed(rule)

\* variant of the accumulation that resets after adding: the first trade of
\* a new date is dropped
DailyLossAccumulate_late(rule, trade_pnl, day) ==
    IF day # rule.reset_date
    THEN [rule EXCEPT !.daily_pnl = 0, !.reset_date = day]
    ELSE [rule EXCEPT !.daily_pnl = @ + trade_pnl]

\* the rule with today's running total: reset on a new date, then
\* "self.daily_pnl += trade_pnl"
DailyLossAccumulate(rule, trade_pnl, day) ==
    IF day # rule.reset_date
    THEN [rule EXCEPT !.daily_pnl = trade_pnl, !.reset_date = day]
    ELSE [rule EXCEPT !.daily_pnl = @ + trade_pnl]

DailyLossVerdict(rule) ==
    IF rule.daily_pnl < -rule.limit
    THEN Denied(rule, <<"Daily loss", rule.daily_pnl, rule.limit>>)
    ELSE Allowed(rule)

\* variant of DailyLossRiskRule.check that takes the trade back when it
\* disallows
DailyLossRiskRule_check_rollback(rule, kw, day) ==
    IF ~rule.enabled THEN Allowed(rule)
    ELSE IF DailyLossVerdict(
              DailyLossAccumulate(rule,
                  IF kw.trade_pnl = None THEN 0 ELSE kw.trade_pnl, day)).passed
         THEN Allowed(DailyLossAccumulate(rule,
                  IF kw.trade_pnl = None THEN 0 ELSE kw.trade_pnl, day))
         ELSE Denied(rule, <<"Daily loss", rule.daily_pnl, rule.limit>>)

\* trade_pnl defaults to 0.0 when it is not passed
DailyLossRiskRule_check(rule, kw, day) ==
    IF ~rule.enabled THEN Allowed(rule)
    ELSE DailyLossVerdict(
           DailyLossAccumulate(rule,
               IF kw.trade_pnl = None THEN 0 ELSE kw.trade_pnl, day))

MaxChaseOrderRiskRule_check(rule, kw) ==
    IF kw.chase_count = None THEN Raised(rule)
    ELSE IF ~rule.enabled THEN Allowed(rule)
    ELSE IF kw.chase_count >= rule.limit
         THEN Denied(rule, <<"Chase count", kw.chase_count, rule.limit>>)
         ELSE Allowed(rule)

\* rule.check(**kwargs), dispatched on the rule's class
RuleCheck(rule, kw, day) ==
    CASE rule.kind = "MaxPosition"   -> MaxPositionRiskRule_check(rule, kw)
      [] rule.kind = "MaxOrderSize"  -> MaxOrderSizeRiskRule_check(rule, kw)
      [] rule.kind = "DailyLoss"     -> DailyLossRiskRule_check(rule, kw, day)
      [] rule.kind = "MaxChaseOrder" -> MaxChaseOrderRiskRule_check(rule, kw)

record_violation(rule, t) ==
    [rule EXCEPT !.violations = @ + 1, !.last_violation_time = t]

\* ====================================================== RiskManager

RiskManager_init ==
    [rules |-> <<>>, enabled |-> TRUE, risk_events |-> <<>>,
     max_event_history |-> MAX_EVENT_HISTORY]

\* variant of the slice that keeps the oldest n events
\* ("self.risk_events[:self.max_event_history]")
LastEvents_oldest(events, n) ==
    IF Len(events) > n THEN SubSeq(events, 1, n) ELSE events

\* "self.risk_events = self.risk_events[-self.max_event_history:]"
LastEvents(events, n) ==
    IF Len(events) > n THEN SubSeq(events, Len(events) - n + 1, Len(events))
    ELSE events

_record_risk_event(m, account_id, rule_kind, msg, t) ==
    [m EXCEPT !.risk_events =
        LastEvents(Append(@, [timestamp |-> t, account_id |-> account_id,
                              rule |-> rule_kind, message |-> msg]),
                   m.max_event_history)]

\* variant of the denial branch that records the event but does not count
\* the violation on the rule
DenyAt_uncounted(m, i, r, account_id, t) ==
    [rm |-> [_record_risk_event(m, account_id, r.rule.kind, r.msg, t)
               EXCEPT !.rules[i] = r.rule],
     passed |-> FALSE, msg |-> r.msg]

\* the i-th rule disallowed with verdict r: the rule keeps what its check
\* did to it, the event is recorded and the rule's violation counted
DenyAt(m, i, r, account_id, t) ==
    [rm |-> [_record_risk_event(m, account_id, r.rule.kind, r.msg, t)
               EXCEPT !.rules[i] = record_violation(r.rule, t)],
     passed |-> FALSE, msg |-> r.msg]

\* variant of the loop with the try around the whole loop: the first rule
\* that raises ends the check
RECURSIVE check_loop_abort(_, _, _, _, _, _)
check_loop_abort(m, kw, account_id, i, t, day) ==
    IF i > Len(m.rules) THEN [rm |-> m, passed |-> TRUE, msg |-> <<>>]
    ELSE
      LET Step(r) ==
            IF r.exc THEN [rm |-> m, passed |-> TRUE, msg |-> <<>>]
            ELSE IF ~r.passed THEN DenyAt(m, i, r, account_id, t)
            ELSE check_loop_abort([m EXCEPT !.rules[i] = r.rule], kw,
                                  account_id, i + 1, t, day)
      IN Step(RuleCheck(m.rules[i], kw, day))

\* the loop "for rule in self.rules" shared by the three checks, from the
\* i-th rule on: a raising rule is logged and skipped, the first rule that
\* disallows is recorded and ends the loop
RECURSIVE check_loop(_, _, _, _, _, _)
check_loop(m, kw, account_id, i, t, day) ==
    IF i > Len(m.rules) THEN [rm |-> m, passed |-> TRUE, msg |-> <<>>]
    ELSE
      LET Step(r) ==
            IF r.exc THEN check_loop(m, kw, account_id, i + 1, t, day)
            ELSE IF ~r.passed THEN DenyAt(m, i, r, account_id, t)
            ELSE check_loop([m EXCEPT !.rules[i] = r.rule], kw, account_id,
                            i + 1, t, day)
      IN Step(RuleCheck(m.rules[i], kw, day))

check_order(m, account_id, order_size, current_position, t, day) ==
    IF ~m.enabled THEN [rm |-> m, passed |-> TRUE, msg |-> <<>>]
    ELSE check_loop(m, Kwargs(order_size, current_position, None, None),
                    account_id, 1, t, day)

\* variant of check_trade without the "if not self.enabled" guard
check_trade_unguarded(m, account_id, trade_pnl, chase_count, t, day) ==
    check_loop(m, Kwargs(None, None, trade_pnl, chase_count),
               account_id, 1, t, day)

check_trade(m, account_id, trade_pnl, chase_count, t, day) ==
    IF ~m.enabled THEN [rm |-> m, passed |-> TRUE, msg |-> <<>>]
    ELSE check_loop(m, Kwargs(None, None, trade_pnl, chase_count),
                    account_id, 1, t, day)

check_chase_order(m, account_id, chase_count, t, day) ==
    IF ~m.enabled THEN [rm |-> m, passed |-> TRUE, msg |-> <<>>]
    ELSE check_loop(m, Kwargs(None, None, None, chase_count),
                    account_id, 1, t, day)

\* configure_default_rules: clear, then add a rule for every truthy entry
configure_default_rules(m, config, day) ==
    [m EXCEPT !.rules =
       (IF Truthy(config.max_position)
        THEN <<MaxPositionRiskRule(config.max_position)>> ELSE <<>>)
       \o (IF Truthy(config.max_order_size)
           THEN <<MaxOrderSizeRiskRule(config.max_order_size)>> ELSE <<>>)
       \o (IF Truthy(config.max_daily_loss)
           THEN <<DailyLossRiskRule(config.max_daily_loss, day)>> ELSE <<>>)
       \o (IF Truthy(config.max_chase_count)
           THEN <<MaxChaseOrderRiskRule(config.max_chase_count)>> ELSE <<>>)]

add_rule(m, rule) == [m EXCEPT !.rules = Append(@, rule)]

\* "self.rules = [r for r in self.rules if r.name != rule_name]"
remove_rule(m, rule_kind) ==
    [m EXCEPT !.rules = SelectSeq(@, LAMBDA r : r.kind # rule_kind)]

enable(m) == [m EXCEPT !.enabled = TRUE]

disable(m) == [m EXCEPT !.enabled = FALSE]

\* DailyLossRiskRule.reset
DailyLossRiskRule_reset(rule, day) ==
    [rule EXCEPT !.daily_pnl = 0, !.reset_date = day]

\* variant of reset_daily_counters that resets the rule to a new one
reset_daily_counters_all(m, day) ==
    [m EXCEPT !.rules =
       [i \in 1..Len(m.rules) |->
          IF m.rules[i].kind = "DailyLoss"
          THEN DailyLossRiskRule(m.rules[i].limit, day)
          ELSE m.rules[i]]]

\* reset_daily_counters: "if isinstance(rule, DailyLossRiskRule): rule.reset()"
reset_daily_counters(m, day) ==
    [m EXCEPT !.rules =
       [i \in 1..Len(m.rules) |->
          IF m.rules[i].kind = "DailyLoss"
          THEN DailyLossRiskRule_reset(m.rules[i], day)
          ELSE m.rules[i]]]

\* ==================================================== ArbitragePair

ArbitragePair_init ==
    [status |-> IDLE,
     bybit_position |-> 0, binance_position |-> 0,
     bybit_order_id |-> None, binance_order_id |-> None,
     bybit_trade_filled |-> FALSE, binance_trade_filled |-> FALSE,
     unilateral_trade_flag |-> FALSE, chase_order_count |-> 0,
     open_time |-> None, close_time |-> None,
     pnl |-> 0]

\* ================================================ ArbitrageStrategy

ArbitrageStrategy_init ==
    [enabled |-> FALSE, auto_mode |-> TRUE, running |-> FALSE,
     open_threshold |-> DEFAULT_OPEN_THRESHOLD,
     close_threshold |-> DEFAULT_CLOSE_THRESHOLD,
     order_size |-> DEFAULT_ORDER_SIZE,
     max_chase_count |-> DEFAULT_MAX_CHASE_COUNT,
     trade_timeout |-> DEFAULT_TRADE_TIMEOUT]

\* check_order's current_position parameter defaults to 0.0, and the
\* strategy never passes it
DEFAULT_CURRENT_POSITION == 0

\* The handlers below are functions of a record st holding the objects a
\* handler reads and writes (strategy, pair, spread, rm), the calls it has
\* made to order_callback so far (calls), the exception that ended it
\* (exc) and the clock readings it sees (now, today). rets holds what
\* order_callback returns to the new orders of the invocation, in order.

\* self.order_callback(account_id, direction, price, size[, order_id]):
\* the call is appended to the log of this handler invocation
order_callback(st, account_id, direction, price, size, order_id) ==
    [st EXCEPT !.calls = Append(@,
        [account_id |-> account_id, direction |-> direction,
         price |-> price, size |-> size, order_id |-> order_id])]

\* the result of a risk check c is taken: the manager is as the check left it
WithRm(st, c) == [st EXCEPT !.rm = c.rm]

\* variant of _execute_open_positive that submits without consulting the
\* risk manager (lines 210-224 dropped)
_execute_open_positive_unchecked(st, rets) ==
    [order_callback(
       order_callback(st, BYBIT_ACCOUNT, "sell",
                      st.spread.bybit_ask - AGGRESSION_OFFSET,
                      st.strategy.order_size, None),
       BINANCE_ACCOUNT, "buy",
       st.spread.binance_bid + AGGRESSION_OFFSET,
       st.strategy.order_size, None)
     EXCEPT !.pair.bybit_order_id = rets[1],
            !.pair.binance_order_id = rets[2],
            !.pair.status = OPENING,
            !.pair.open_time = st.now,
            !.pair.bybit_trade_filled = FALSE,
            !.pair.binance_trade_filled = FALSE]

\* variant of _execute_open_positive that prices both legs passively (the
\* offset added to the sell and taken from the buy)
_execute_open_positive_passive(st, rets) ==
    LET Submit(s) ==
          [order_callback(
             order_callback(s, BYBIT_ACCOUNT, "sell",
                            s.spread.bybit_ask + AGGRESSION_OFFSET,
                            s.strategy.order_size, None),
             BINANCE_ACCOUNT, "buy",
             s.spread.binance_bid - AGGRESSION_OFFSET,
             s.strategy.order_size, None)
           EXCEPT !.pair.bybit_order_id = rets[1],
                  !.pair.binance_order_id = rets[2],
                  !.pair.status = OPENING,
                  !.pair.open_time = s.now,
                  !.pair.bybit_trade_filled = FALSE,
                  !.pair.binance_trade_filled = FALSE]
        AfterSecond(s, c) ==
          IF ~c.passed THEN WithRm(s, c) ELSE Submit(WithRm(s, c))
        Second(s) ==
          AfterSecond(s, check_order(s.rm, BINANCE_ACCOUNT,
                                     s.strategy.order_size,
                                     DEFAULT_CURRENT_POSITION, s.now, s.today))
        AfterFirst(c) ==
          IF ~c.passed THEN WithRm(st, c) ELSE Second(WithRm(st, c))
    IN AfterFirst(check_order(st.rm, BYBIT_ACCOUNT, -st.strategy.order_size,
                              DEFAULT_CURRENT_POSITION, st.now, st.today))

_execute_open_positive(st, rets) ==
    LET Submit(s) ==
          [order_callback(
             order_callback(s, BYBIT_ACCOUNT, "sell",
                            s.spread.bybit_ask - AGGRESSION_OFFSET,
                            s.strategy.order_size, None),
             BINANCE_ACCOUNT, "buy",
             s.spread.binance_bid + AGGRESSION_OFFSET,
             s.strategy.order_size, None)
           EXCEPT !.pair.bybit_order_id = rets[1],
                  !.pair.binance_order_id = rets[2],
                  !.pair.status = OPENING,
                  !.pair.open_time = s.now,
                  !.pair.bybit_trade_filled = FALSE,
                  !.pair.binance_trade_filled = FALSE]
        AfterSecond(s, c) ==
          IF ~c.passed THEN WithRm(s, c) ELSE Submit(WithRm(s, c))
        Second(s) ==
          AfterSecond(s, check_order(s.rm, BINANCE_ACCOUNT,
                                     s.strategy.order_size,
                                     DEFAULT_CURRENT_POSITION, s.now, s.today))
        AfterFirst(c) ==
          IF ~c.passed THEN WithRm(st, c) ELSE Second(WithRm(st, c))
    IN AfterFirst(check_order(st.rm, BYBIT_ACCOUNT, -st.strategy.order_size,
                              DEFAULT_CURRENT_POSITION, st.now, st.today))

_execute_open_negative(st, rets) ==
    LET Submit(s) ==
          [order_callback(
             order_callback(s, BINANCE_ACCOUNT, "sell",
                            s.spread.binance_ask - AGGRESSION_OFFSET,
                            s.strategy.order_size, None),
             BYBIT_ACCOUNT, "buy",
             s.spread.bybit_bid + AGGRESSION_OFFSET,
             s.strategy.order_size, None)
           EXCEPT !.pair.binance_order_id = rets[1],
                  !.pair.bybit_order_id = rets[2],
                  !.pair.status = OPENING,
                  !.pair.open_time = s.now,
                  !.pair.bybit_trade_filled = FALSE,
                  !.pair.binance_trade_filled = FALSE]
        AfterSecond(s, c) ==
          IF ~c.passed THEN WithRm(s, c) ELSE Submit(WithRm(s, c))
        Second(s) ==
          AfterSecond(s, check_order(s.rm, BYBIT_ACCOUNT,
                                     s.strategy.order_size,
                                     DEFAULT_CURRENT_POSITION, s.now, s.today))
        AfterFirst(c) ==
          IF ~c.passed THEN WithRm(st, c) ELSE Second(WithRm(st, c))
    IN AfterFirst(check_order(st.rm, BINANCE_ACCOUNT, -st.strategy.order_size,
                              DEFAULT_CURRENT_POSITION, st.now, st.today))

_execute_close_positive(st, rets) ==
    [order_callback(
       order_callback(st, BYBIT_ACCOUNT, "buy",
                      st.spread.bybit_bid + AGGRESSION_OFFSET,
                      st.strategy.order_size, None),
       BINANCE_ACCOUNT, "sell",
       st.spread.binance_ask - AGGRESSION_OFFSET,
       st.strategy.order_size, None)
     EXCEPT !.pair.bybit_order_id = rets[1],
            !.pair.binance_order_id = rets[2],
            !.pair.status = CLOSING,
            !.pair.close_time = st.now,
            !.pair.bybit_trade_filled = FALSE,
            !.pair.binance_trade_filled = FALSE]

_execute_close_negative(st, rets) ==
    [order_callback(
       order_callback(st, BINANCE_ACCOUNT, "buy",
                      st.spread.binance_bid + AGGRESSION_OFFSET,
                      st.strategy.order_size, None),
       BYBIT_ACCOUNT, "sell",
       st.spread.bybit_ask - AGGRESSION_OFFSET,
       st.strategy.order_size, None)
     EXCEPT !.pair.binance_order_id = rets[1],
            !.pair.bybit_order_id = rets[2],
            !.pair.status = CLOSING,
            !.pair.close_time = st.now,
            !.pair.bybit_trade_filled = FALSE,
            !.pair.binance_trade_filled = FALSE]

_check_open_conditions(st, rets) ==
    IF st.spread.spread_positive # None
       /\ st.spread.spread_positive >= st.strategy.open_threshold
    THEN _execute_open_positive(st, rets)
    ELSE IF st.spread.spread_negative # None
            /\ st.spread.spread_negative <= -st.strategy.open_threshold
         THEN _execute_open_negative(st, rets)
         ELSE st

_check_close_conditions(st, rets) ==
    IF st.pair.bybit_position > 0 /\ st.pair.binance_position < 0
    THEN IF st.spread.spread_positive # None
            /\ st.spread.spread_positive <= st.strategy.close_threshold
         THEN _execute_close_positive(st, rets)
         ELSE st
    ELSE IF st.pair.bybit_position < 0 /\ st.pair.binance_position > 0
         THEN IF st.spread.spread_negative # None
                 /\ st.spread.spread_negative >= -st.strategy.close_threshold
              THEN _execute_close_negative(st, rets)
              ELSE st
         ELSE st

\* variant of _cancel_all_orders that forgets the binance order
_cancel_all_orders_bybit_only(st) ==
    IF Truthy(st.pair.bybit_order_id)
    THEN [order_callback(st, BYBIT_ACCOUNT, "cancel", 0, 0,
                         st.pair.bybit_order_id)
            EXCEPT !.pair.bybit_order_id = None]
    ELSE st

\* "if pair.x_order_id:" is Python truthiness; the cancel call's return
\* value is not used
_cancel_all_orders(st) ==
    LET CancelBybit(s) ==
          IF Truthy(s.pair.bybit_order_id)
          THEN [order_callback(s, BYBIT_ACCOUNT, "cancel", 0, 0,
                               s.pair.bybit_order_id)
                  EXCEPT !.pair.bybit_order_id = None]
          ELSE s
        CancelBinance(s) ==
          IF Truthy(s.pair.binance_order_id)
          THEN [order_callback(s, BINANCE_ACCOUNT, "cancel", 0, 0,
                               s.pair.binance_order_id)
                  EXCEPT !.pair.binance_order_id = None]
          ELSE s
    IN CancelBinance(CancelBybit(st))

\* the price and the direction _execute_chase_order picks
ChasePrice(st, platform) ==
    IF platform = "bybit"
    THEN IF st.pair.bybit_position > 0
         THEN st.spread.bybit_bid ELSE st.spread.bybit_ask
    ELSE IF platform = "binance"
         THEN IF st.pair.binance_position > 0
              THEN st.spread.binance_bid ELSE st.spread.binance_ask
         ELSE None

ChaseDirection(st) ==
    IF st.pair.bybit_position > 0 \/ st.pair.binance_position > 0
    THEN "buy" ELSE "sell"

\* variant of _execute_chase_order that places the chase order without
\* counting it
_execute_chase_order_uncounted(st, platform, rets) ==
    LET Place(s, price) ==
          IF price = None THEN s
          ELSE [order_callback(s,
                   IF platform = "bybit" THEN BYBIT_ACCOUNT ELSE BINANCE_ACCOUNT,
                   ChaseDirection(s), price, s.strategy.order_size, None)
                EXCEPT !.pair.bybit_order_id =
                           IF platform = "bybit" THEN rets[1] ELSE @,
                       !.pair.binance_order_id =
                           IF platform = "bybit" THEN @ ELSE rets[1],
                       !.pair.unilateral_trade_flag = TRUE]
        Cancelled(s) == Place(s, ChasePrice(s, platform))
        AfterCheck(c) ==
          IF ~c.passed THEN WithRm(st, c)
          ELSE Cancelled(_cancel_all_orders(WithRm(st, c)))
    IN AfterCheck(check_chase_order(st.rm, STRATEGY_ID,
                                    st.pair.chase_order_count + 1,
                                    st.now, st.today))

_execute_chase_order(st, platform, rets) ==
    LET Place(s, price) ==
          IF price = None THEN s
          ELSE [order_callback(s,
                   IF platform = "bybit" THEN BYBIT_ACCOUNT ELSE BINANCE_ACCOUNT,
                   ChaseDirection(s), price, s.strategy.order_size, None)
                EXCEPT !.pair.bybit_order_id =
                           IF platform = "bybit" THEN rets[1] ELSE @,
                       !.pair.binance_order_id =
                           IF platform = "bybit" THEN @ ELSE rets[1],
                       !.pair.unilateral_trade_flag = TRUE,
                       !.pair.chase_order_count = @ + 1]
        Cancelled(s) == Place(s, ChasePrice(s, platform))
        AfterCheck(c) ==
          IF ~c.passed THEN WithRm(st, c)
          ELSE Cancelled(_cancel_all_orders(WithRm(st, c)))
    IN AfterCheck(check_chase_order(st.rm, STRATEGY_ID,
                                    st.pair.chase_order_count + 1,
                                    st.now, st.today))

_handle_trade_timeout(st, rets) ==
    IF st.pair.bybit_trade_filled /\ ~st.pair.binance_trade_filled
    THEN _execute_chase_order(st, "binance", rets)
    ELSE IF st.pair.binance_trade_filled /\ ~st.pair.bybit_trade_filled
         THEN _execute_chase_order(st, "bybit", rets)
         ELSE IF ~st.pair.bybit_trade_filled /\ ~st.pair.binance_trade_filled
              THEN [_cancel_all_orders(st) EXCEPT !.pair.status = IDLE]
              ELSE st

\* the conditions of _check_trade_timeout: the timeout has elapsed for the
\* order pair in flight
TimedOut(st) ==
    \/ /\ st.pair.status = OPENING
       /\ st.pair.open_time # None
       /\ st.now - st.pair.open_time >= st.strategy.trade_timeout
    \/ /\ st.pair.status = CLOSING
       /\ st.pair.close_time # None
       /\ st.now - st.pair.close_time >= st.strategy.trade_timeout

_check_trade_timeout(st, rets) ==
    IF TimedOut(st) THEN _handle_trade_timeout(st, rets) ELSE st

_check_conditions(st, rets) ==
    IF ~is_valid(st.spread) THEN st
    ELSE IF st.pair.status = IDLE THEN _check_open_conditions(st, rets)
    ELSE IF st.pair.status = OPENED THEN _check_close_conditions(st, rets)
    ELSE IF st.pair.status \in {OPENING, CLOSING}
         THEN _check_trade_timeout(st, rets)
         ELSE st

\* the snapshot and the exception are as SpreadData.update left them
WithUpdate(st, u) == [st EXCEPT !.spread = u.sd, !.exc = u.exc]

_process_bybit_tick(st, tick_data) ==
    WithUpdate(st, SpreadData_update(st.spread, tick_data, SpreadDataObject,
                                     st.now))

_process_binance_tick(st, tick_data) ==
    WithUpdate(st, SpreadData_update(st.spread, SpreadDataObject, tick_data,
                                     st.now))

\* update_tick: an exception raised while processing the tick leaves the
\* "with self.lock" block and the method, so _check_conditions is skipped
update_tick(st, platform, tick_data, rets) ==
    LET Processed(s) ==
          IF s.exc # "none" THEN s ELSE _check_conditions(s, rets)
    IN IF ~st.strategy.enabled \/ ~st.strategy.auto_mode THEN st
       ELSE Processed(
              IF platform = "bybit" THEN _process_bybit_tick(st, tick_data)
              ELSE IF platform = "binance"
                   THEN _process_binance_tick(st, tick_data)
                   ELSE st)

\* the block under "with self.lock" of update_tick
update_tick_locked(st, platform, tick_data, rets) ==
    LET Processed(s) ==
          IF s.exc # "none" THEN s ELSE _check_conditions(s, rets)
    IN Processed(
         IF platform = "bybit" THEN _process_bybit_tick(st, tick_data)
         ELSE IF platform = "binance"
              THEN _process_binance_tick(st, tick_data)
              ELSE st)

\* "pair.pnl = spread_positive or spread_negative or 0.0"
ClosePnl(sd) ==
    IF Truthy(sd.spread_positive) THEN sd.spread_positive
    ELSE IF Truthy(sd.spread_negative) THEN sd.spread_negative
    ELSE 0

\* variant of _check_both_filled that takes the close back when check_trade
\* disallows
_check_both_filled_rollback(st) ==
    LET Closed(s, c) ==
          IF c.passed THEN WithRm(s, c) ELSE WithRm(st, c)
        Reset(s) ==
          [s EXCEPT !.pair.unilateral_trade_flag = FALSE,
                    !.pair.chase_order_count = 0]
    IN IF st.pair.bybit_trade_filled /\ st.pair.binance_trade_filled
       THEN Reset(IF st.pair.status = OPENING
                  THEN [st EXCEPT !.pair.status = OPENED]
                  ELSE IF st.pair.status = CLOSING
                       THEN Closed([st EXCEPT !.pair.status = CLOSED,
                                              !.pair.pnl = ClosePnl(st.spread)],
                                   check_trade(st.rm, STRATEGY_ID,
                                               ClosePnl(st.spread),
                                               st.pair.chase_order_count,
                                               st.now, st.today))
                       ELSE st)
       ELSE st

\* variant of _check_both_filled that is satisfied by a single fill
_check_both_filled_either(st) ==
    LET Closed(s) ==
          WithRm(s, check_trade(s.rm, STRATEGY_ID, s.pair.pnl,
                                s.pair.chase_order_count, s.now, s.today))
        Reset(s) ==
          [s EXCEPT !.pair.unilateral_trade_flag = FALSE,
                    !.pair.chase_order_count = 0]
    IN IF st.pair.bybit_trade_filled \/ st.pair.binance_trade_filled
       THEN Reset(IF st.pair.status = OPENING
                  THEN [st EXCEPT !.pair.status = OPENED]
                  ELSE IF st.pair.status = CLOSING
                       THEN Closed([st EXCEPT !.pair.status = CLOSED,
                                              !.pair.pnl = ClosePnl(st.spread)])
                       ELSE st)
       ELSE st

\* variant of _check_both_filled that keeps unilateral_trade_flag and
\* chase_order_count when the pair completes (lines 471-472 dropped)
_check_both_filled_keeping(st) ==
    LET Closed(s) ==
          WithRm(s, check_trade(s.rm, STRATEGY_ID, s.pair.pnl,
                                s.pair.chase_order_count, s.now, s.today))
    IN IF st.pair.bybit_trade_filled /\ st.pair.binance_trade_filled
       THEN IF st.pair.status = OPENING
            THEN [st EXCEPT !.pair.status = OPENED]
            ELSE IF st.pair.status = CLOSING
                 THEN Closed([st EXCEPT !.pair.status = CLOSED,
                                        !.pair.pnl = ClosePnl(st.spread)])
                 ELSE st
       ELSE st

_check_both_filled(st) ==
    LET Closed(s) ==
          WithRm(s, check_trade(s.rm, STRATEGY_ID, s.pair.pnl,
                                s.pair.chase_order_count, s.now, s.today))
        Reset(s) ==
          [s EXCEPT !.pair.unilateral_trade_flag = FALSE,
                    !.pair.chase_order_count = 0]
    IN IF st.pair.bybit_trade_filled /\ st.pair.binance_trade_filled
       THEN Reset(IF st.pair.status = OPENING
                  THEN [st EXCEPT !.pair.status = OPENED]
                  ELSE IF st.pair.status = CLOSING
                       THEN Closed([st EXCEPT !.pair.status = CLOSED,
                                              !.pair.pnl = ClosePnl(st.spread)])
                       ELSE st)
       ELSE st

\* on_trade(platform, trade_data); position is trade_data.get('position'),
\* None when the key is absent
on_trade(st, platform, position) ==
    IF ~st.strategy.enabled THEN st
    ELSE _check_both_filled(
           IF platform = "bybit"
           THEN [st EXCEPT !.pair.bybit_trade_filled = TRUE,
                           !.pair.bybit_position =
                               IF position = None THEN @ ELSE position]
           ELSE IF platform = "binance"
                THEN [st EXCEPT !.pair.binance_trade_filled = TRUE,
                                !.pair.binance_position =
                                    IF position = None THEN @ ELSE position]
                ELSE st)

\* the block under "with self.lock" of on_trade
on_trade_locked(st, platform, position) ==
    _check_both_filled(
      IF platform = "bybit"
      THEN [st EXCEPT !.pair.bybit_trade_filled = TRUE,
                      !.pair.bybit_position =
                          IF position = None THEN @ ELSE position]
      ELSE IF platform = "binance"
           THEN [st EXCEPT !.pair.binance_trade_filled = TRUE,
                           !.pair.binance_position =
                               IF position = None THEN @ ELSE position]
           ELSE st)

\* set_parameters(**kwargs); a None field of kwargs is a key not passed
set_parameters(st, kwargs) ==
    LET Pick(new, old) == IF new # None THEN new ELSE old
    IN [st EXCEPT
          !.strategy.open_threshold = Pick(kwargs.open_threshold, @),
          !.strategy.close_threshold = Pick(kwargs.close_threshold, @),
          !.strategy.order_size = Pick(kwargs.order_size, @),
          !.strategy.max_chase_count = Pick(kwargs.max_chase_count, @),
          !.strategy.trade_timeout = Pick(kwargs.trade_timeout, @)]

start(st) ==
    IF st.strategy.running THEN st
    ELSE [st EXCEPT !.strategy.enabled = TRUE, !.strategy.running = TRUE]

\* variant of stop that cancels the pending orders on the way out
stop_cancelling(st) ==
    [_cancel_all_orders(st) EXCEPT !.strategy.enabled = FALSE,
                                   !.strategy.running = FALSE]

stop(st) ==
    [st EXCEPT !.strategy.enabled = FALSE, !.strategy.running = FALSE]

\* get_status: the block under "with self.lock" builds the dict from the
\* strategy's and the pair's fields and changes none of them
get_status_locked(st) == st

\* ============================================================ the lock
FREE == "free"

\* the threads that call into one strategy: the market-data callbacks, the
\* trade-confirmation callbacks and the HTTP handlers
Threads == {"ticks", "fills", "api"}

\* a method call: the method and its arguments
MethodCall(op, platform, position, kwargs) ==
    [op |-> op, platform |-> platform, position |-> position,
     kwargs |-> kwargs]

NoCall == MethodCall("none", "none", None, NoChange)

Idle == [at |-> "idle", call |-> NoCall]

\* the calls each thread makes
ThreadCalls(t) ==
    IF t = "ticks"
    THEN { MethodCall("update_tick", platform, None, NoChange) :
             platform \in {"bybit", "other"} }
    ELSE IF t = "fills"
    THEN { MethodCall("on_trade", platform, 10, NoChange) :
             platform \in {"bybit", "binance"} }
    ELSE { MethodCall("set_parameters", "none", None,
                      [NoChange EXCEPT !.order_size = 20]),
           MethodCall("get_status", "none", None, NoChange) }

\* the statements before "with self.lock": update_tick and on_trade return
\* at once when the strategy is not enabled
ReachesLock(st, call) ==
    IF call.op = "update_tick"
    THEN st.strategy.enabled /\ st.strategy.auto_mode
    ELSE IF call.op = "on_trade" THEN st.strategy.enabled
    ELSE TRUE

\* variant of the lock that never blocks
CanAcquire_always(l) == TRUE

\* threading.Lock.acquire blocks while the lock is held
CanAcquire(l) == l = FREE

\* the block under the lock of the call
LockedBlock(st, call, tick_data, rets) ==
    IF call.op = "update_tick"
    THEN update_tick_locked(st, call.platform, tick_data, rets)
    ELSE IF call.op = "on_trade"
    THEN on_trade_locked(st, call.platform, call.position)
    ELSE IF call.op = "set_parameters"
    THEN set_parameters(st, call.kwargs)
    ELSE get_status_locked(st)

\* =================================================== the state machine

\* the objects as a handler finds them when it is called
Cur ==
    [strategy |-> strategy, pair |-> pair, spread |-> spread, rm |-> rm,
     calls |-> <<>>, exc |-> "none", now |-> now, today |-> today]

\* the counters a run of the program lets grow without limit, capped
Bounded(st) ==
    /\ st.pair.chase_order_count <= MaxChase
    /\ Len(st.rm.risk_events) <= MaxEvents

\* history: which opening order pair the position in flight comes from
OpenedAfter(st) ==
    IF st.pair.status \in {IDLE, CLOSED} THEN "none"
    ELSE IF pair.status = IDLE /\ st.pair.status = OPENING
         THEN IF st.calls[1].account_id = BYBIT_ACCOUNT
              THEN "positive" ELSE "negative"
         ELSE opened

\* a handler has returned (or raised) and left the objects as in st
Commit(st) ==
    /\ Bounded(st)
    /\ strategy' = st.strategy
    /\ pair' = st.pair
    /\ spread' = st.spread
    /\ rm' = st.rm
    /\ calls' = st.calls
    /\ exc' = st.exc
    /\ opened' = OpenedAfter(st)
    /\ UNCHANGED <<now, today, lock, pc>>

\* construction: app.create_arbitrage_pair builds the strategy and
\* configures the shared RiskManager's rules
Init ==
    /\ strategy = ArbitrageStrategy_init
    /\ pair = ArbitragePair_init
    /\ spread = SpreadData_init
    /\ \E config \in RiskConfigs :
          rm = configure_default_rules(RiskManager_init, config, 0)
    /\ now = 0
    /\ today = 0
    /\ calls = <<>>
    /\ exc = "none"
    /\ opened = "none"
    /\ lock = FREE
    /\ pc = [t \in Threads |-> Idle]

Start == Commit(start(Cur))

UpdateTickCall(platform, tick_data, rets) ==
    Commit(update_tick(Cur, platform, tick_data, rets))

UpdateTick ==
    \E platform \in Platforms, tick_data \in Ticks, rets \in Returns \X Returns :
        UpdateTickCall(platform, tick_data, rets)

\* a direct call of the snapshot's update method with two tick dicts
SpreadUpdateCall(bybit_tick, binance_tick) ==
    Commit(WithUpdate(Cur, SpreadData_update(spread, bybit_tick,
                                             binance_tick, now)))

SpreadUpdate ==
    \E bybit_tick \in BybitTicks, binance_tick \in BinanceTicks :
        SpreadUpdateCall(bybit_tick, binance_tick)

OnTradeCall(platform, position) ==
    Commit(on_trade(Cur, platform, position))

OnTrade ==
    \E platform \in Platforms, position \in TradePositions :
        OnTradeCall(platform, position)

\* the wall clock advances; the model looks at it once per timeout period
TimeStep == DEFAULT_TRADE_TIMEOUT

Advance ==
    /\ now < MaxAdvances * TimeStep
    /\ now' = now + TimeStep
    /\ calls' = <<>>
    /\ exc' = "none"
    /\ UNCHANGED <<strategy, pair, spread, rm, today, opened, lock, pc>>

Next ==
    \/ Start
    \/ UpdateTick
    \/ SpreadUpdate
    \/ OnTrade
    \/ Advance

Spec == Init /\ [][Next]_vars

\* ------------------------------------- the strategy's parameter interface
Stop == Commit(stop(Cur))

SetParametersCall(kwargs) == Commit(set_parameters(Cur, kwargs))

SetParameters == \E kwargs \in ParamUpdates : SetParametersCall(kwargs)

NextParams ==
    \/ Start
    \/ Stop
    \/ SetParameters

SpecParams == Init /\ [][NextParams]_vars

\* ------------------------------------------- the RiskManager's interface
\* the running totals and histories a run lets grow without limit, capped
BoundedRm(m) ==
    /\ Len(m.risk_events) <= MaxEvents
    /\ Len(m.rules) <= MaxRules
    /\ \A i \in 1..Len(m.rules) :
          Abs(m.rules[i].daily_pnl) <= MaxTrades * LOSS

\* a RiskManager method has returned and left the manager as m
CommitRm(m) ==
    /\ BoundedRm(m)
    /\ rm' = m
    /\ UNCHANGED <<strategy, pair, spread, now, today, calls, exc, opened,
                   lock, pc>>

CheckOrderCall(account_id, order_size, current_position) ==
    CommitRm(check_order(rm, account_id, order_size, current_position,
                         now, today).rm)

CheckOrder ==
    \E account_id \in Accounts, order_size \in OrderSizes,
       current_position \in CurrentPositions :
        CheckOrderCall(account_id, order_size, current_position)

CheckTradeCall(account_id, trade_pnl, chase_count) ==
    CommitRm(check_trade(rm, account_id, trade_pnl, chase_count,
                         now, today).rm)

CheckTrade ==
    \E account_id \in Accounts, trade_pnl \in TradePnls,
       chase_count \in ChaseCounts :
        CheckTradeCall(account_id, trade_pnl, chase_count)

CheckChaseOrderCall(account_id, chase_count) ==
    CommitRm(check_chase_order(rm, account_id, chase_count, now, today).rm)

CheckChaseOrder ==
    \E account_id \in Accounts, chase_count \in ChaseCounts :
        CheckChaseOrderCall(account_id, chase_count)

Enable == CommitRm(enable(rm))

Disable == CommitRm(disable(rm))

ResetDailyCounters == CommitRm(reset_daily_counters(rm, today))

\* rules an operator registers after the default configuration
AddableRules == { MaxOrderSizeRiskRule(5) }

AddRule == \E rule \in AddableRules : CommitRm(add_rule(rm, rule))

\* rules an operator takes out of the list
RemovableRules == {"MaxPosition", "MaxOrderSize"}

RemoveRule ==
    \E rule_kind \in RemovableRules :
        /\ \E i \in 1..Len(rm.rules) : rm.rules[i].kind = rule_kind
        /\ CommitRm(remove_rule(rm, rule_kind))

\* midnight passes: datetime.now().date() changes
DAY == 86400

NextDay ==
    /\ today < MaxDays
    /\ today' = today + 1
    /\ now' = now + DAY
    /\ UNCHANGED <<strategy, pair, spread, rm, calls, exc, opened, lock, pc>>

NextRisk ==
    \/ CheckOrder
    \/ CheckTrade
    \/ CheckChaseOrder
    \/ Enable
    \/ Disable
    \/ ResetDailyCounters
    \/ AddRule
    \/ RemoveRule
    \/ NextDay

SpecRisk == Init /\ [][NextRisk]_vars

\* ------------------------------------------------ the strategy's life
\* a deployment with a daily loss limit of 0.30
TightLossConfig == [DefaultRiskConfig EXCEPT !.max_daily_loss = 30]

InitLife ==
    /\ strategy = ArbitrageStrategy_init
    /\ pair = ArbitragePair_init
    /\ spread = SpreadData_init
    /\ rm = configure_default_rules(RiskManager_init, TightLossConfig, 0)
    /\ now = 0
    /\ today = 0
    /\ calls = <<>>
    /\ exc = "none"
    /\ opened = "none"
    /\ lock = FREE
    /\ pc = [t \in Threads |-> Idle]

\* the quotes of the life cycle: bybit ask 100.60 opens the pair, bybit ask
\* 99.60 (0.40 under the binance bid) closes it at a loss
LifeBybitTicks == { Tick(10020, 10060), Tick(9950, 9960) }

Quote ==
    \E bybit_tick \in LifeBybitTicks, binance_tick \in BinanceTicks :
        SpreadUpdateCall(bybit_tick, binance_tick)

\* one iteration of the thread started by start(): "while self.running:
\* time.sleep(0.1)". The body takes no lock, reads no field of the pair and
\* calls nothing.
_run_loop(st) == st

RunLoop ==
    /\ strategy.running
    /\ Commit(_run_loop(Cur))

NextLife ==
    \/ Start
    \/ Stop
    \/ UpdateTick
    \/ Quote
    \/ OnTrade
    \/ Advance
    \/ RunLoop

\* the thread is scheduled for as long as it runs
SpecLife == InitLife /\ [][NextLife]_vars /\ WF_vars(RunLoop)

\* and the gateways keep delivering ticks: the snapshot keeps being updated
\* and update_tick keeps being called
SpecTicks == SpecLife /\ WF_vars(Quote) /\ []<><<UpdateTick>>_vars

\* ------------------------------------------- the strategy's lock
\* a thread calls a method and reaches its "with self.lock"
Invoke(t) ==
    /\ pc[t].at = "idle"
    /\ \E call \in ThreadCalls(t) :
          /\ ReachesLock(Cur, call)
          /\ pc' = [pc EXCEPT ![t] = [at |-> "waiting", call |-> call]]
    /\ UNCHANGED <<strategy, pair, spread, rm, now, today, calls, exc,
                   opened, lock>>

\* the thread enters the block
Acquire(t) ==
    /\ pc[t].at = "waiting"
    /\ CanAcquire(lock)
    /\ lock' = t
    /\ pc' = [pc EXCEPT ![t].at = "critical"]
    /\ UNCHANGED <<strategy, pair, spread, rm, now, today, calls, exc, opened>>

\* the thread runs the block to its end and leaves it, which releases the
\* lock
ReleaseWith(t, st) ==
    /\ Bounded(st)
    /\ strategy' = st.strategy
    /\ pair' = st.pair
    /\ spread' = st.spread
    /\ rm' = st.rm
    /\ calls' = st.calls
    /\ exc' = st.exc
    /\ opened' = OpenedAfter(st)
    /\ lock' = FREE
    /\ pc' = [pc EXCEPT ![t] = Idle]
    /\ UNCHANGED <<now, today>>

Release(t) ==
    /\ pc[t].at = "critical"
    /\ \E tick_data \in Ticks, rets \in {<<1, 1>>} :
          ReleaseWith(t, LockedBlock(Cur, pc[t].call, tick_data, rets))

NextLock ==
    \/ Start
    \/ Stop
    \/ Quote
    \/ Advance
    \/ \E t \in Threads : Invoke(t)
    \/ \E t \in Threads : Acquire(t)
    \/ \E t \in Threads : Release(t)

SpecLock == Init /\ [][NextLock]_vars

\* ------------------------------------------ the event history filling up
\* an order above max_order_size, checked with nothing held
OVERSIZED == -200

\* a second passes and check_order is called for an oversized order
LateOrder ==
    /\ now < MaxDenials
    /\ now' = now + 1
    /\ rm' = check_order(rm, STRATEGY_ID, OVERSIZED, DEFAULT_CURRENT_POSITION,
                         now + 1, today).rm
    /\ UNCHANGED <<strategy, pair, spread, today, calls, exc, opened, lock, pc>>

SpecHistory == InitLife /\ [][LateOrder]_vars

\* ------------------------------------ reconfiguring the shared manager
\* app.create_arbitrage_pair hands the same default configuration to the
\* shared RiskManager each time a strategy is created
ConfigEntries ==
    <<"max_position", "max_order_size", "max_daily_loss", "max_chase_count">>

\* the rule configure_default_rules builds for an entry of the configuration
RuleFor(entry, config, day) ==
    IF entry = "max_position" THEN MaxPositionRiskRule(config.max_position)
    ELSE IF entry = "max_order_size"
    THEN MaxOrderSizeRiskRule(config.max_order_size)
    ELSE IF entry = "max_daily_loss"
    THEN DailyLossRiskRule(config.max_daily_loss, day)
    ELSE MaxChaseOrderRiskRule(config.max_chase_count)

\* the entry of the configuration after this one; "idle": none is left
EntryAfter(entry) ==
    IF entry = "max_position" THEN "max_order_size"
    ELSE IF entry = "max_order_size" THEN "max_daily_loss"
    ELSE IF entry = "max_daily_loss" THEN "max_chase_count"
    ELSE "idle"

\* "self.rules.clear()", made without the manager's lock; the thread is
\* then at the first "if config.get(...)"
BeginConfigure ==
    /\ pc["api"].at = "idle"
    /\ rm' = [rm EXCEPT !.rules = <<>>]
    /\ pc' = [pc EXCEPT !["api"].at = ConfigEntries[1]]
    /\ UNCHANGED <<strategy, pair, spread, now, today, calls, exc, opened,
                   lock>>

\* one "if config.get(entry): self.add_rule(...)"; add_rule takes the lock
\* for the append alone
ConfigureEntry ==
    /\ \E k \in 1..Len(ConfigEntries) : pc["api"].at = ConfigEntries[k]
    /\ rm' = IF Truthy(DefaultRiskConfig[pc["api"].at])
             THEN add_rule(rm, RuleFor(pc["api"].at, DefaultRiskConfig, today))
             ELSE rm
    /\ pc' = [pc EXCEPT !["api"].at = EntryAfter(pc["api"].at)]
    /\ UNCHANGED <<strategy, pair, spread, now, today, calls, exc, opened,
                   lock>>

NextReconf ==
    \/ BeginConfigure
    \/ ConfigureEntry
    \/ CheckOrder
    \/ CheckTrade
    \/ CheckChaseOrder
    \/ NextDay

SpecReconf == InitLife /\ [][NextReconf]_vars

\* ------------------------------- the order callback of the application
\* app.execute_order: gateway.send_order returns an order id or None
WiredReturns == { <<1, 1>>, <<None, None>> }

\* execute_order calls on_trade, and with it the strategy's on_trade, before
\* it returns, when send_order returned an order id: the block that ends as
\* st makes such a call when a new order of it was accepted
NotifiesFill(st, rets) ==
    \E i \in 1..Len(SelectSeq(st.calls, LAMBDA c : c.direction # "cancel")) :
        rets[i] # None

\* the objects when the first order of the block that ends as st is
\* submitted: the risk checks and the cancels are done (_cancel_all_orders
\* has cleared the order ids), nothing else of the pair is assigned yet
AtFirstOrder(st) ==
    LET cancelled == SelectSeq(st.calls, LAMBDA c : c.direction = "cancel")
    IN [Cur EXCEPT !.rm = st.rm,
                   !.calls = cancelled,
                   !.pair.bybit_order_id =
                       IF cancelled = <<>> THEN @ ELSE None,
                   !.pair.binance_order_id =
                       IF cancelled = <<>> THEN @ ELSE None]

\* the nested on_trade passes its test of enabled and reaches "with
\* self.lock" on the thread that holds the lock: threading.Lock is not
\* reentrant, the thread waits for itself
Reenter(t, st) ==
    /\ Bounded(AtFirstOrder(st))
    /\ strategy' = AtFirstOrder(st).strategy
    /\ pair' = AtFirstOrder(st).pair
    /\ spread' = AtFirstOrder(st).spread
    /\ rm' = AtFirstOrder(st).rm
    /\ calls' = AtFirstOrder(st).calls
    /\ exc' = "none"
    /\ pc' = [pc EXCEPT ![t].at = "reentering"]
    /\ UNCHANGED <<now, today, opened, lock>>

\* a block whose order callback notifies a fill while the strategy is enabled
Submit(t) ==
    /\ pc[t].at = "critical"
    /\ strategy.enabled
    /\ \E tick_data \in Ticks, rets \in WiredReturns :
          /\ NotifiesFill(LockedBlock(Cur, pc[t].call, tick_data, rets), rets)
          /\ Reenter(t, LockedBlock(Cur, pc[t].call, tick_data, rets))

\* a block that runs to its end: no order of it is accepted, or the nested
\* on_trade returns at its test of enabled
Complete(t) ==
    /\ pc[t].at = "critical"
    /\ \E tick_data \in Ticks, rets \in WiredReturns :
          /\ ~(strategy.enabled /\
                NotifiesFill(LockedBlock(Cur, pc[t].call, tick_data, rets),
                             rets))
          /\ ReleaseWith(t, LockedBlock(Cur, pc[t].call, tick_data, rets))

NextWired ==
    \/ Start
    \/ Stop
    \/ Quote
    \/ Advance
    \/ \E t \in Threads : Invoke(t)
    \/ \E t \in Threads : Acquire(t)
    \/ \E t \in Threads : Complete(t)
    \/ \E t \in Threads : Submit(t)

SpecWired == InitLife /\ [][NextWired]_vars

\* ------------------------------------------ a tight position limit
\* a deployment whose max_position equals one order (0.01)
SmallPositionConfig == [DefaultRiskConfig EXCEPT !.max_position = 10]

InitPosition ==
    /\ strategy = ArbitrageStrategy_init
    /\ pair = ArbitragePair_init
    /\ spread = SpreadData_init
    /\ rm = configure_default_rules(RiskManager_init, SmallPositionConfig, 0)
    /\ now = 0
    /\ today = 0
    /\ calls = <<>>
    /\ exc = "none"
    /\ opened = "none"
    /\ lock = FREE
    /\ pc = [t \in Threads |-> Idle]

SpecPosition == InitPosition /\ [][Next]_vars

\* ------------------------------------------- a lowered chase ceiling
\* set_parameters(max_chase_count=1)
LowerChaseCeiling ==
    SetParametersCall([NoChange EXCEPT !.max_chase_count = 1])

NextChase ==
    \/ Start
    \/ LowerChaseCeiling
    \/ Disable
    \/ UpdateTick
    \/ Quote
    \/ OnTrade
    \/ Advance

SpecChase == InitLife /\ [][NextChase]_vars

\* ============================================================ claims

\* the new orders among the order_callback calls cs (the cancels left out)
NewOrders(cs) == SelectSeq(cs, LAMBDA c : c.direction # "cancel")

Order(account_id, direction, price, size) ==
    [account_id |-> account_id, direction |-> direction, price |-> price,
     size |-> size, order_id |-> None]

\* both check_order calls of an open attempt pass, the second made on the
\* manager as the first left it
OpenRiskPasses ==
    LET Second(c) ==
          c.passed /\ check_order(c.rm, BINANCE_ACCOUNT, strategy.order_size,
                                  DEFAULT_CURRENT_POSITION, now, today).passed
    IN Second(check_order(rm, BYBIT_ACCOUNT, -strategy.order_size,
                          DEFAULT_CURRENT_POSITION, now, today))

PositiveOpenFires(sd) ==
    /\ is_valid(sd)
    /\ sd.spread_positive # None
    /\ sd.spread_positive >= strategy.open_threshold

NegativeOpenFires(sd) ==
    /\ is_valid(sd)
    /\ ~PositiveOpenFires(sd)
    /\ sd.spread_negative # None
    /\ sd.spread_negative <= -strategy.open_threshold

AllReturns == Returns \X Returns

\* C1: starting IDLE and enabled, an update_tick call for a venue that
\* brings bybit ask minus binance bid (the tick's quote against the other
\* venue's stored quote) to open_threshold or above moves the status to
\* OPENING and submits exactly two orders, one per venue (the risk checks
\* passing).
C1_TickOpens ==
    [][\A tick \in Ticks, rets \in AllReturns :
         /\ (/\ strategy.enabled /\ pair.status = IDLE /\ OpenRiskPasses
             /\ UpdateTickCall("bybit", tick, rets)
             /\ spread.binance_bid # None /\ spread.binance_ask # None
             /\ tick.ask - spread.binance_bid >= strategy.open_threshold)
            => (/\ pair'.status = OPENING
                /\ Len(NewOrders(calls')) = 2
                /\ {calls'[1].account_id, calls'[2].account_id}
                     = {BYBIT_ACCOUNT, BINANCE_ACCOUNT})
         /\ (/\ strategy.enabled /\ pair.status = IDLE /\ OpenRiskPasses
             /\ UpdateTickCall("binance", tick, rets)
             /\ spread.bybit_bid # None /\ spread.bybit_ask # None
             /\ spread.bybit_ask - tick.bid >= strategy.open_threshold)
            => (/\ pair'.status = OPENING
                /\ Len(NewOrders(calls')) = 2
                /\ {calls'[1].account_id, calls'[2].account_id}
                     = {BYBIT_ACCOUNT, BINANCE_ACCOUNT})
      ]_vars

\* C2: when an open condition fires in IDLE and check_order denies a leg,
\* the update_tick call makes no order_callback call and leaves every
\* ArbitragePair field, the status included, as it was.
C2_DeniedOpenSubmitsNothing ==
    [][\A platform \in Platforms, tick \in Ticks, rets \in AllReturns :
         (/\ strategy.enabled /\ pair.status = IDLE
          /\ UpdateTickCall(platform, tick, rets)
          /\ exc' = "none"
          /\ PositiveOpenFires(spread') \/ NegativeOpenFires(spread')
          /\ ~OpenRiskPasses)
         => (calls' = <<>> /\ pair' = pair)
      ]_vars

\* C2 witness: an attempt was denied by the order-size rule
C2_Witness ==
    /\ strategy.enabled /\ pair.status = IDLE
    /\ PositiveOpenFires(spread)
    /\ calls = <<>>
    /\ Len(rm.risk_events) = 1
    /\ rm.risk_events[1].rule = "MaxOrderSize"
    /\ rm.risk_events[1].account_id = BYBIT_ACCOUNT

\* C3: update_tick for a venue stores the tick's bid and ask as that
\* venue's quote and leaves the other venue's stored quote unchanged.
C3_TickUpdatesOneVenue ==
    [][\A tick \in Ticks, rets \in AllReturns :
         /\ (strategy.enabled /\ UpdateTickCall("bybit", tick, rets))
            => (/\ spread'.bybit_bid = tick.bid
                /\ spread'.bybit_ask = tick.ask
                /\ spread'.binance_bid = spread.binance_bid
                /\ spread'.binance_ask = spread.binance_ask)
         /\ (strategy.enabled /\ UpdateTickCall("binance", tick, rets))
            => (/\ spread'.binance_bid = tick.bid
                /\ spread'.binance_ask = tick.ask
                /\ spread'.bybit_bid = spread.bybit_bid
                /\ spread'.bybit_ask = spread.bybit_ask)
      ]_vars

\* C4: a stored spread is defined only when its two quotes are, and then
\* spread_positive is the stored bybit ask minus the stored binance bid and
\* spread_negative the stored binance ask minus the stored bybit bid.
C4_SpreadsFresh ==
    /\ spread.spread_positive # None
         => (/\ spread.bybit_ask # None /\ spread.binance_bid # None
             /\ spread.spread_positive = spread.bybit_ask - spread.binance_bid)
    /\ spread.spread_negative # None
         => (/\ spread.binance_ask # None /\ spread.bybit_bid # None
             /\ spread.spread_negative = spread.binance_ask - spread.bybit_bid)

\* C5: when the positive-spread open fires (the risk checks passing), the
\* calls are a sell on bybit at the bybit ask minus 0.01 and a buy on
\* binance at the binance bid plus 0.01, both of order_size, and the status
\* becomes OPENING.
C5_PositiveOpenOrders ==
    [][\A platform \in Platforms, tick \in Ticks, rets \in AllReturns :
         (/\ strategy.enabled /\ pair.status = IDLE
          /\ UpdateTickCall(platform, tick, rets)
          /\ exc' = "none"
          /\ PositiveOpenFires(spread')
          /\ OpenRiskPasses)
         => (/\ calls' = << Order(BYBIT_ACCOUNT, "sell",
                                  spread'.bybit_ask - 1, strategy.order_size),
                            Order(BINANCE_ACCOUNT, "buy",
                                  spread'.binance_bid + 1, strategy.order_size) >>
             /\ pair'.status = OPENING)
      ]_vars

\* C5 witness: bybit ask 100.60 and binance bid 100.00 opened at 100.59 and
\* 100.01
C5_Witness ==
    /\ pair.status = OPENING
    /\ spread.bybit_ask = 10060 /\ spread.binance_bid = 10000
    /\ strategy.open_threshold = 50
    /\ calls = << Order(BYBIT_ACCOUNT, "sell", 10059, DEFAULT_ORDER_SIZE),
                  Order(BINANCE_ACCOUNT, "buy", 10001, DEFAULT_ORDER_SIZE) >>

\* C6: no state has status OPENING with both fill flags set; an on_trade in
\* OPENING that leaves both flags set moves the status to OPENED with
\* chase_order_count 0 and unilateral_trade_flag false, and an on_trade that
\* leaves only one flag set leaves the status OPENING (strategy enabled).
C6_BothFilledOpens ==
    /\ [](pair.status = OPENING
            => ~(pair.bybit_trade_filled /\ pair.binance_trade_filled))
    /\ [][\A platform \in Platforms, position \in TradePositions :
            (/\ strategy.enabled /\ pair.status = OPENING
             /\ OnTradeCall(platform, position))
            => IF pair'.bybit_trade_filled /\ pair'.binance_trade_filled
               THEN /\ pair'.status = OPENED
                    /\ pair'.chase_order_count = 0
                    /\ ~pair'.unilateral_trade_flag
               ELSE pair'.status = OPENING
         ]_vars

\* C6 witness: both fills arrived and the pair is OPENED
C6_Witness ==
    /\ pair.status = OPENED
    /\ pair.bybit_trade_filled /\ pair.binance_trade_filled
    /\ pair.chase_order_count = 0 /\ ~pair.unilateral_trade_flag
    /\ calls = <<>>

\* C7: in OPENED, holding the position of a positive-spread open (short
\* bybit, long binance), a tick moves the status to CLOSING exactly when it
\* leaves spread_positive at or below close_threshold.
C7_ClosesOnRevert ==
    [][\A platform \in Platforms, tick \in Ticks, rets \in AllReturns :
         (/\ strategy.enabled /\ pair.status = OPENED
          /\ opened = "positive"
          /\ pair.bybit_position < 0 /\ pair.binance_position > 0
          /\ UpdateTickCall(platform, tick, rets)
          /\ exc' = "none"
          /\ is_valid(spread'))
         => (pair'.status = CLOSING
               <=> spread'.spread_positive <= strategy.close_threshold)
      ]_vars

\* C8: the two orders of the OPENED -> CLOSING transition have, on each
\* venue, the direction opposite to that venue's opening order.
C8_CloseReversesOpen ==
    [][(pair.status = OPENED /\ pair'.status = CLOSING)
         => \A i \in 1..Len(calls') :
              calls'[i].direction =
                 IF (opened = "positive")
                      <=> (calls'[i].account_id = BYBIT_ACCOUNT)
                 THEN "buy" ELSE "sell"
      ]_vars

ExactlyOneFilled == pair.bybit_trade_filled # pair.binance_trade_filled

UnfilledAccount ==
    IF pair.bybit_trade_filled THEN BINANCE_ACCOUNT ELSE BYBIT_ACCOUNT

ChaseRiskPasses ==
    check_chase_order(rm, STRATEGY_ID, pair.chase_order_count + 1,
                      now, today).passed

\* an update_tick call that reaches the timeout handling of the pair
TimeoutPass(platform, tick, rets) ==
    /\ strategy.enabled
    /\ TimedOut(Cur)
    /\ UpdateTickCall(platform, tick, rets)
    /\ exc' = "none"
    /\ is_valid(spread')

\* C9: in OPENING with exactly one fill flag set and the timeout elapsed, a
\* timeout pass whose chase risk check passes submits exactly one new order,
\* to the unfilled venue's account, adds exactly 1 to chase_order_count,
\* sets unilateral_trade_flag and leaves the status OPENING.
C9_OneChasePerTimeout ==
    [][\A platform \in Platforms, tick \in Ticks, rets \in AllReturns :
         (/\ pair.status = OPENING /\ ExactlyOneFilled
          /\ TimeoutPass(platform, tick, rets)
          /\ ChaseRiskPasses)
         => (/\ Len(NewOrders(calls')) = 1
             /\ NewOrders(calls')[1].account_id = UnfilledAccount
             /\ pair'.chase_order_count = pair.chase_order_count + 1
             /\ pair'.unilateral_trade_flag
             /\ pair'.status = OPENING)
      ]_vars

\* C9 witness: the first chase order of an opening pair has been submitted
C9_Witness ==
    /\ pair.status = OPENING /\ ExactlyOneFilled
    /\ pair.chase_order_count = 1 /\ pair.unilateral_trade_flag
    /\ Len(NewOrders(calls)) = 1
    /\ NewOrders(calls)[1].account_id = UnfilledAccount

\* the manager holds an enabled MaxChaseOrderRiskRule with ceiling n
ChaseCeiling(n) ==
    /\ rm.enabled
    /\ \E i \in 1..Len(rm.rules) :
          /\ rm.rules[i].kind = "MaxChaseOrder"
          /\ rm.rules[i].enabled
          /\ rm.rules[i].limit = n

\* C10: with a chase ceiling of 1, in OPENING with only bybit filled, the
\* first timeout's chase is allowed (one order, chase_order_count becomes 1)
\* and the second is denied (no new order, chase_order_count stays 1, a
\* violation is recorded).
C10_CeilingOneAllowsOneChase ==
    [][\A platform \in Platforms, tick \in Ticks, rets \in AllReturns :
         (/\ ChaseCeiling(1) /\ pair.status = OPENING
          /\ pair.bybit_trade_filled /\ ~pair.binance_trade_filled
          /\ TimeoutPass(platform, tick, rets))
         => IF pair.chase_order_count = 0
            THEN /\ Len(NewOrders(calls')) = 1
                 /\ pair'.chase_order_count = 1
            ELSE /\ NewOrders(calls') = <<>>
                 /\ pair'.chase_order_count = pair.chase_order_count
                 /\ Len(rm'.risk_events) = Len(rm.risk_events) + 1
      ]_vars

\* the cancel calls _cancel_all_orders makes for the order ids now pending
Cancel(account_id, order_id) ==
    [account_id |-> account_id, direction |-> "cancel", price |-> 0,
     size |-> 0, order_id |-> order_id]

PendingCancels ==
    (IF Truthy(pair.bybit_order_id)
     THEN << Cancel(BYBIT_ACCOUNT, pair.bybit_order_id) >> ELSE << >>)
    \o (IF Truthy(pair.binance_order_id)
        THEN << Cancel(BINANCE_ACCOUNT, pair.binance_order_id) >> ELSE << >>)

NeitherFilled == ~pair.bybit_trade_filled /\ ~pair.binance_trade_filled

\* C11: in OPENING or CLOSING with neither leg filled, a timeout pass cancels
\* each pending order id, leaves both order ids None and moves the status to
\* IDLE; and a step from OPENING or CLOSING to IDLE is always such a pass.
C11_UnfilledTimeoutCancels ==
    [][/\ \A platform \in Platforms, tick \in Ticks, rets \in AllReturns :
            (/\ pair.status \in {OPENING, CLOSING} /\ NeitherFilled
             /\ TimeoutPass(platform, tick, rets))
            => (/\ calls' = PendingCancels
                /\ pair'.bybit_order_id = None
                /\ pair'.binance_order_id = None
                /\ pair'.status = IDLE)
       /\ (pair.status \in {OPENING, CLOSING} /\ pair'.status = IDLE)
            => (/\ NeitherFilled /\ TimedOut(Cur) /\ is_valid(spread')
                /\ calls' = PendingCancels)
      ]_vars

\* C11 witness: an unfilled pair timed out and both of its orders were
\* cancelled
C11_Witness ==
    /\ pair.status = IDLE
    /\ pair.open_time # None
    /\ pair.bybit_order_id = None /\ pair.binance_order_id = None
    /\ Len(calls) = 2
    /\ calls[1].direction = "cancel" /\ calls[1].account_id = BYBIT_ACCOUNT
    /\ calls[2].direction = "cancel" /\ calls[2].account_id = BINANCE_ACCOUNT

\* C12: when order_callback returns None for a leg of an open or close
\* attempt, the attempt leaves the pair as it was: the status does not
\* become OPENING or CLOSING, no order id is recorded and no open_time or
\* close_time is stamped.
C12_RejectedLegLeavesPair ==
    [][\A platform \in Platforms, tick \in Ticks, rets \in AllReturns :
         (/\ strategy.enabled /\ pair.status \in {IDLE, OPENED}
          /\ UpdateTickCall(platform, tick, rets)
          /\ Len(NewOrders(calls')) = 2
          /\ rets[1] = None \/ rets[2] = None)
         => pair' = pair
      ]_vars

\* a keyword argument that is passed and negative
InvalidParams(kwargs) ==
    \E k \in DOMAIN kwargs : kwargs[k] # None /\ kwargs[k] < 0

\* C13: set_parameters called with an invalid (negative) value is rejected:
\* every strategy parameter keeps its previous value.
C13_InvalidParametersRejected ==
    [][\A kwargs \in ParamUpdates :
         (SetParametersCall(kwargs) /\ InvalidParams(kwargs))
         => strategy' = strategy
      ]_vars

\* ---- the checks of the RiskManager, restated rule by rule

\* the i-th rule of m disallows a check made with the keyword arguments kw
Disallows(m, i, kw) ==
    /\ ~RuleCheck(m.rules[i], kw, today).exc
    /\ ~RuleCheck(m.rules[i], kw, today).passed

\* the first rule of m that disallows; 0 when none does
FirstDenying(m, kw) ==
    IF \E i \in 1..Len(m.rules) : Disallows(m, i, kw)
    THEN CHOOSE i \in 1..Len(m.rules) :
           /\ Disallows(m, i, kw)
           /\ \A j \in 1..(i - 1) : ~Disallows(m, j, kw)
    ELSE 0

\* what check_order leaves of rule i when size exceeds its limit
OrderSizeDenial(i, r, order_size, kw) ==
    /\ ~r.passed
    /\ FirstDenying(rm, kw) = i
         => /\ r.msg = << "Order size", order_size, rm.rules[i].limit >>
            /\ \A j \in (i + 1)..Len(rm.rules) :
                  r.rm.rules[j] = rm.rules[j]

OtherCountersKept(m, i) ==
    \A j \in 1..Len(rm.rules) :
        j # i => m.rules[j].violations = rm.rules[j].violations

\* a check with keyword arguments kw that returned r was allowed: every
\* rule was evaluated, no event appended, no counter changed
AllowedOutcome(r, kw) ==
    /\ r.passed
    /\ r.rm.risk_events = rm.risk_events
    /\ OtherCountersKept(r.rm, 0)
    /\ \A j \in 1..Len(rm.rules) :
          r.rm.rules[j] = RuleCheck(rm.rules[j], kw, today).rule

\* it was denied by rule f: the rules before f were evaluated, the rules
\* after f were not, one event is appended and f's counter is one higher
DeniedOutcome(r, kw, account_id, f) ==
    /\ ~r.passed
    /\ r.msg = RuleCheck(rm.rules[f], kw, today).msg
    /\ r.rm.risk_events =
         Append(rm.risk_events,
                [timestamp |-> now, account_id |-> account_id,
                 rule |-> rm.rules[f].kind, message |-> r.msg])
    /\ r.rm.rules[f].violations = rm.rules[f].violations + 1
    /\ OtherCountersKept(r.rm, f)
    /\ \A j \in 1..(f - 1) :
          r.rm.rules[j] = RuleCheck(rm.rules[j], kw, today).rule
    /\ \A j \in (f + 1)..Len(rm.rules) : r.rm.rules[j] = rm.rules[j]

CheckOutcome(r, kw, account_id) ==
    /\ Len(r.rm.rules) = Len(rm.rules)
    /\ r.rm.enabled = rm.enabled
    /\ IF FirstDenying(rm, kw) = 0
       THEN AllowedOutcome(r, kw)
       ELSE DeniedOutcome(r, kw, account_id, FirstDenying(rm, kw))

\* C15: with the manager enabled, each of the three checks evaluates the
\* rules in registration order up to the first that disallows; a denied
\* check appends exactly one event and adds one to the violation counter of
\* exactly that rule, an allowed check appends no event and changes no
\* counter.
C15_FirstDenyingRuleRecorded ==
    rm.enabled =>
      \A account_id \in Accounts :
        /\ \A order_size \in OrderSizes, current_position \in CurrentPositions :
              CheckOutcome(check_order(rm, account_id, order_size,
                                       current_position, now, today),
                           Kwargs(order_size, current_position, None, None),
                           account_id)
        /\ \A trade_pnl \in TradePnls, chase_count \in ChaseCounts :
              CheckOutcome(check_trade(rm, account_id, trade_pnl, chase_count,
                                       now, today),
                           Kwargs(None, None, trade_pnl, chase_count),
                           account_id)
        /\ \A chase_count \in ChaseCounts :
              CheckOutcome(check_chase_order(rm, account_id, chase_count,
                                             now, today),
                           Kwargs(None, None, None, chase_count),
                           account_id)

\* C15 witness: a check_trade was denied by the chase rule, registered last:
\* the daily-loss rule before it was evaluated, one event, one violation
C15_Witness ==
    /\ rm.enabled /\ Len(rm.rules) = 4
    /\ rm.rules[3].kind = "DailyLoss" /\ rm.rules[3].daily_pnl = -LOSS
    /\ rm.rules[4].kind = "MaxChaseOrder" /\ rm.rules[4].violations = 1
    /\ \A j \in 1..3 : rm.rules[j].violations = 0
    /\ Len(rm.risk_events) = 1
    /\ rm.risk_events[1].rule = "MaxChaseOrder"

Unevaluated(r) == r = [rm |-> rm, passed |-> TRUE, msg |-> << >>]

\* C16: while the manager is not enabled, check_order, check_trade and
\* check_chase_order return allowed for every input and leave the manager,
\* its rules (running totals, reset dates, violation counters) and its
\* events as they were.
C16_DisabledManagerAllows ==
    ~rm.enabled =>
      \A account_id \in Accounts :
        /\ \A order_size \in OrderSizes, current_position \in CurrentPositions :
              Unevaluated(check_order(rm, account_id, order_size,
                                      current_position, now, today))
        /\ \A trade_pnl \in TradePnls, chase_count \in ChaseCounts :
              Unevaluated(check_trade(rm, account_id, trade_pnl, chase_count,
                                      now, today))
        /\ \A chase_count \in ChaseCounts :
              Unevaluated(check_chase_order(rm, account_id, chase_count,
                                            now, today))

\* C16 witness: a disabled manager whose rules would disallow a chase count
\* of 5 and whose daily-loss rule would roll its date
C16_Witness ==
    /\ ~rm.enabled
    /\ FirstDenying(rm, Kwargs(None, None, None, 5)) # 0
    /\ \E i \in 1..Len(rm.rules) :
          rm.rules[i].kind = "DailyLoss" /\ rm.rules[i].reset_date # today
    /\ check_chase_order(rm, STRATEGY_ID, 5, now, today).passed

\* the rule's check raises for the keyword arguments kw
Raises(rule, kw) == RuleCheck(rule, kw, today).exc

\* the manager m without the rules that raise for kw
WithoutRaising(m, kw) ==
    [m EXCEPT !.rules = SelectSeq(@, LAMBDA rule : ~Raises(rule, kw))]

\* the check that returned r for kw equals the check r2 made without the
\* raising rules, which are themselves left as they were
SameAsWithout(r, r2, kw) ==
    /\ r.passed = r2.passed
    /\ r.msg = r2.msg
    /\ r.rm.risk_events = r2.rm.risk_events
    /\ WithoutRaising(r.rm, kw).rules = r2.rm.rules
    /\ Len(r.rm.rules) = Len(rm.rules)
    /\ \A i \in 1..Len(rm.rules) :
          Raises(rm.rules[i], kw) => r.rm.rules[i] = rm.rules[i]

\* C17: a rule whose evaluation raises is treated as absent: the check
\* returns, records and changes what it would with that rule removed, and
\* the raising rule is left as it was.
C17_RaisingRuleSkipped ==
    rm.enabled =>
      \A account_id \in Accounts :
        /\ \A order_size \in OrderSizes, current_position \in CurrentPositions :
              SameAsWithout(
                check_order(rm, account_id, order_size, current_position,
                            now, today),
                check_order(WithoutRaising(rm,
                               Kwargs(order_size, current_position, None, None)),
                            account_id, order_size, current_position,
                            now, today),
                Kwargs(order_size, current_position, None, None))
        /\ \A trade_pnl \in TradePnls, chase_count \in ChaseCounts :
              SameAsWithout(
                check_trade(rm, account_id, trade_pnl, chase_count, now, today),
                check_trade(WithoutRaising(rm,
                               Kwargs(None, None, trade_pnl, chase_count)),
                            account_id, trade_pnl, chase_count, now, today),
                Kwargs(None, None, trade_pnl, chase_count))
        /\ \A chase_count \in ChaseCounts :
              SameAsWithout(
                check_chase_order(rm, account_id, chase_count, now, today),
                check_chase_order(WithoutRaising(rm,
                                     Kwargs(None, None, None, chase_count)),
                                  account_id, chase_count, now, today),
                Kwargs(None, None, None, chase_count))

\* C17 witness: a chase check skipped the two rules that raise on it, rolled
\* the daily-loss rule's date and was denied by the chase rule
C17_Witness ==
    /\ rm.enabled /\ Len(rm.rules) = 4 /\ today = 1
    /\ Raises(rm.rules[1], Kwargs(None, None, None, 5))
    /\ Raises(rm.rules[2], Kwargs(None, None, None, 5))
    /\ rm.rules[3].kind = "DailyLoss"
    /\ rm.rules[3].reset_date = 1 /\ rm.rules[3].daily_pnl = 0
    /\ rm.rules[4].kind = "MaxChaseOrder" /\ rm.rules[4].violations = 1
    /\ rm.rules[4].last_violation_time = now
    /\ rm.risk_events[1].message = << "Chase count", 5, 5 >>

\* the i-th rule is reached by a check with arguments kw
Reached(i, kw) == FirstDenying(rm, kw) = 0 \/ FirstDenying(rm, kw) >= i

\* C18: a check_trade that reaches an enabled DailyLossRiskRule adds its
\* trade_pnl to the rule's running total of the day (starting from 0 on a
\* new date), also when the call returns not allowed.
C18_TradePnlAccumulates ==
    rm.enabled =>
      \A account_id \in Accounts, trade_pnl \in TradePnls,
         chase_count \in ChaseCounts, i \in 1..Len(rm.rules) :
          (/\ rm.rules[i].kind = "DailyLoss" /\ rm.rules[i].enabled
           /\ Reached(i, Kwargs(None, None, trade_pnl, chase_count)))
          => check_trade(rm, account_id, trade_pnl, chase_count,
                         now, today).rm.rules[i].daily_pnl
               = (IF rm.rules[i].reset_date = today
                  THEN rm.rules[i].daily_pnl ELSE 0) + trade_pnl

\* C18 witness: two losses of 60.00 in one day against a limit of 100.00: the
\* second check_trade was denied and its loss is in the total
C18_Witness ==
    \E i \in 1..Len(rm.rules) :
        /\ rm.rules[i].kind = "DailyLoss"
        /\ rm.rules[i].limit = 10000
        /\ rm.rules[i].daily_pnl = -2 * LOSS
        /\ rm.rules[i].violations = 1
        /\ rm.risk_events[1].rule = "DailyLoss"
        /\ rm.risk_events[1].message = << "Daily loss", -2 * LOSS, 10000 >>

\* what reset_daily_counters makes of rm
ResetOutcome(m) ==
    /\ m.enabled = rm.enabled
    /\ m.risk_events = rm.risk_events
    /\ m.max_event_history = rm.max_event_history
    /\ Len(m.rules) = Len(rm.rules)
    /\ \A i \in 1..Len(rm.rules) :
          m.rules[i] =
            IF rm.rules[i].kind = "DailyLoss"
            THEN [rm.rules[i] EXCEPT !.daily_pnl = 0, !.reset_date = today]
            ELSE rm.rules[i]

\* C19: reset_daily_counters sets every DailyLossRiskRule's running total to
\* zero and its reset date to the current date, whatever the date, and
\* leaves the rule list, the enabled flags, the violation counters and the
\* event history as they were.
C19_ResetOnlyDailyTotals == ResetOutcome(reset_daily_counters(rm, today))

\* C19 witness: a daily-loss rule with a violation, a total below its limit
\* and yesterday's reset date, which the reset brings to zero and to today
C19_Witness ==
    \E i \in 1..Len(rm.rules) :
        /\ rm.rules[i].kind = "DailyLoss"
        /\ rm.rules[i].violations = 1
        /\ rm.rules[i].daily_pnl = -2 * LOSS
        /\ rm.rules[i].reset_date = 0 /\ today = 1
        /\ reset_daily_counters(rm, today).rules[i].daily_pnl = 0
        /\ reset_daily_counters(rm, today).rules[i].violations = 1

\* C20: a fill that does not belong to an order pair in flight (one arriving
\* while the status is IDLE or OPENED) is ignored: the venue's fill flag and
\* position and the status are left as they were.
C20_StaleFillIgnored ==
    [][\A platform \in {"bybit", "binance"}, position \in TradePositions :
         (/\ strategy.enabled /\ pair.status \in {IDLE, OPENED}
          /\ OnTradeCall(platform, position))
         => (/\ pair'.bybit_trade_filled = pair.bybit_trade_filled
             /\ pair'.binance_trade_filled = pair.binance_trade_filled
             /\ pair'.bybit_position = pair.bybit_position
             /\ pair'.binance_position = pair.binance_position
             /\ pair'.status = pair.status)
      ]_vars

\* C23: in every reachable state a pending order id that is not None implies
\* status OPENING or CLOSING: both order ids are None in IDLE, OPENED and
\* CLOSED.
C23_OrderIdsOnlyInFlight ==
    (pair.bybit_order_id # None \/ pair.binance_order_id # None)
      => pair.status \in {OPENING, CLOSING}

\* the cancel calls among the order_callback calls cs
Cancels(cs) == SelectSeq(cs, LAMBDA c : c.direction = "cancel")

\* C27: on a timeout with exactly one leg filled (the chase risk check
\* passing), every cancel is for the unfilled leg's account and pending order
\* id, and the filled leg's recorded order id is left as it was.
C27_ChaseCancelsUnfilledOnly ==
    [][\A platform \in Platforms, tick \in Ticks, rets \in AllReturns :
         (/\ pair.status \in {OPENING, CLOSING} /\ ExactlyOneFilled
          /\ TimeoutPass(platform, tick, rets)
          /\ ChaseRiskPasses)
         => (/\ \A i \in 1..Len(Cancels(calls')) :
                   Cancels(calls')[i].account_id = UnfilledAccount
             /\ IF pair.bybit_trade_filled
                THEN pair'.bybit_order_id = pair.bybit_order_id
                ELSE pair'.binance_order_id = pair.binance_order_id)
      ]_vars

\* the manager m with only the rules of the given kinds
OnlyRules(m, kinds) ==
    [m EXCEPT !.rules = SelectSeq(@, LAMBDA rule : rule.kind \in kinds)]

\* the rules are those configure_default_rules registers, in its order
DefaultRuleSet(m) ==
    /\ Len(m.rules) = 4
    /\ m.rules[1].kind = "MaxPosition"
    /\ m.rules[2].kind = "MaxOrderSize"
    /\ m.rules[3].kind = "DailyLoss"
    /\ m.rules[4].kind = "MaxChaseOrder"

\* the check_order that returned r agrees with r2, made with the MaxPosition
\* and MaxOrderSize rules alone, and left the other rules as they were
DecidedBySizeAndPosition(r, r2) ==
    /\ r.passed = r2.passed
    /\ \A i \in 1..Len(rm.rules) :
          rm.rules[i].kind \in {"DailyLoss", "MaxChaseOrder"}
            => r.rm.rules[i] = rm.rules[i]

\* C28: with the default rule set, check_order returns what the MaxPosition
\* and MaxOrderSize rules decide, whatever the DailyLossRiskRule's running
\* total, and leaves the DailyLossRiskRule and the MaxChaseOrderRiskRule as
\* they were.
C28_OrderDecidedBySizeAndPosition ==
    (rm.enabled /\ DefaultRuleSet(rm)) =>
      \A account_id \in Accounts, order_size \in OrderSizes,
         current_position \in CurrentPositions :
          DecidedBySizeAndPosition(
            check_order(rm, account_id, order_size, current_position,
                        now, today),
            check_order(OnlyRules(rm, {"MaxPosition", "MaxOrderSize"}),
                        account_id, order_size, current_position, now, today))

\* the trade_pnl values a rule evaluation is made with; None: not passed
EvaluatedPnls == TradePnls \cup {None}

PnlOf(trade_pnl) == IF trade_pnl = None THEN 0 ELSE trade_pnl

\* what one evaluation with trade_pnl makes of a DailyLossRiskRule: r is the
\* rule after it
DailyRollOutcome(rule, r, trade_pnl) ==
    /\ r.reset_date = today
    /\ r.daily_pnl = (IF rule.reset_date # today THEN 0 ELSE rule.daily_pnl)
                       + PnlOf(trade_pnl)

\* C30: an evaluation of an enabled DailyLossRiskRule on a date other than
\* its reset date starts the running total from zero before adding the pnl
\* and sets the reset date to the current date; an evaluation on the reset
\* date only adds, and so does every further evaluation that date; and the
\* date changing does not by itself change any rule.
C30_DailyTotalResetsOncePerDate ==
    /\ [](\A i \in 1..Len(rm.rules), p1 \in EvaluatedPnls, p2 \in EvaluatedPnls :
            (rm.rules[i].kind = "DailyLoss" /\ rm.rules[i].enabled)
            => LET first == DailyLossRiskRule_check(
                              rm.rules[i], Kwargs(None, None, p1, None),
                              today).rule
                   second == DailyLossRiskRule_check(
                               first, Kwargs(None, None, p2, None), today).rule
               IN /\ DailyRollOutcome(rm.rules[i], first, p1)
                  /\ second.reset_date = first.reset_date
                  /\ second.daily_pnl = first.daily_pnl + PnlOf(p2))
    /\ [][today' # today => rm' = rm]_vars

\* C30 witness: the rule disallowed on day 0 with a total of -120.00, and on
\* day 1 its total is the single loss of 60.00 evaluated that day
C30_Witness ==
    \E i \in 1..Len(rm.rules) :
        /\ rm.rules[i].kind = "DailyLoss"
        /\ today = 1 /\ rm.rules[i].reset_date = 1
        /\ rm.rules[i].daily_pnl = -LOSS
        /\ rm.rules[i].violations = 1
        /\ rm.rules[i].last_violation_time = 0
        /\ rm.risk_events[1].message = << "Daily loss", -2 * LOSS, 10000 >>

\* two runs of a handler left the same pair and made the same calls
SamePairAndCalls(a, b) == a.pair = b.pair /\ a.calls = b.calls

\* C24: while an order pair is in flight (OPENING or CLOSING), a
\* set_parameters call does not affect it: the next update_tick pass makes
\* the calls (a chase order of the pair's order size) and leaves the pair
\* (timed out or not, by the trade_timeout in force at submission) exactly as
\* it would without the call.
C24_InFlightPairUnaffected ==
    (strategy.enabled /\ pair.status \in {OPENING, CLOSING}) =>
      \A kwargs \in ParamUpdates, platform \in Platforms, tick \in Ticks,
         rets \in AllReturns :
          SamePairAndCalls(
            update_tick(Cur, platform, tick, rets),
            update_tick(set_parameters(Cur, kwargs), platform, tick, rets))

\* C21: stop() clears enabled and running, so the watchdog loop ends, and
\* makes no order_callback call: the pair (pending order ids, fill flags,
\* positions, status) is the same after it as before.
C21_StopLeavesOrders ==
    [][Stop => (/\ calls' = <<>>
                /\ pair' = pair
                /\ ~strategy'.running /\ ~strategy'.enabled)
      ]_vars

\* C21 witness: a strategy stopped with a pair in flight: one leg filled, both
\* order ids still recorded
C21_Witness ==
    /\ ~strategy.running /\ ~strategy.enabled
    /\ pair.status = OPENING
    /\ Truthy(pair.bybit_order_id) /\ Truthy(pair.binance_order_id)
    /\ pair.bybit_trade_filled /\ ~pair.binance_trade_filled
    /\ calls = <<>>

\* C22: a pair that has reached CLOSED returns to IDLE (for as long as the
\* strategy stays enabled and ticks keep arriving): it never stays CLOSED
\* forever.
C22_ClosedReturnsToIdle ==
    (pair.status = CLOSED) ~> (pair.status = IDLE \/ ~strategy.enabled)

\* an order pair is in flight and its timeout has elapsed, after n chases
TimedOutInFlight(n) ==
    /\ strategy.running /\ strategy.enabled
    /\ pair.status \in {OPENING, CLOSING}
    /\ is_valid(spread)
    /\ TimedOut(Cur)
    /\ pair.chase_order_count = n

\* C25: while the strategy runs, a timed-out order pair in flight is
\* eventually handled (a chase order placed, or the pair cancelled and back
\* to IDLE) by the watchdog alone, whether or not a tick or a fill arrives:
\* a pass of the watchdog loop that finds the timeout elapsed handles it.
C25_WatchdogHandlesTimeout ==
    /\ \A n \in 0..(MaxChase - 1) :
          TimedOutInFlight(n) ~> ~TimedOutInFlight(n)
    /\ [][\A n \in 0..(MaxChase - 1) :
            (RunLoop /\ TimedOutInFlight(n)) => ~TimedOutInFlight(n)'
         ]_vars

\* the position a fill notification leaves recorded
FilledPosition(old, position) == IF position = None THEN old ELSE position

\* C29: the on_trade that completes a close leaves the status CLOSED, the
\* pnl, the positions as the fill reported them and chase_order_count 0, and
\* the manager exactly as one check_trade call with that pnl and the chase
\* count accumulated during the close leaves it, allowed or not.
C29_CloseBookkeeping ==
    [][\A platform \in Platforms, position \in TradePositions :
         (/\ strategy.enabled /\ pair.status = CLOSING
          /\ OnTradeCall(platform, position)
          /\ pair'.bybit_trade_filled /\ pair'.binance_trade_filled)
         => (/\ pair'.status = CLOSED
             /\ pair'.pnl = ClosePnl(spread)
             /\ pair'.chase_order_count = 0
             /\ pair'.bybit_position =
                  IF platform = "bybit"
                  THEN FilledPosition(pair.bybit_position, position)
                  ELSE pair.bybit_position
             /\ pair'.binance_position =
                  IF platform = "binance"
                  THEN FilledPosition(pair.binance_position, position)
                  ELSE pair.binance_position
             /\ rm' = check_trade(rm, STRATEGY_ID, ClosePnl(spread),
                                  pair.chase_order_count, now, today).rm)
      ]_vars

\* C29 witness: a close at a loss of 0.40 against a daily limit of 0.30: the
\* check_trade was not allowed, and the pair is CLOSED with that pnl
C29_Witness ==
    /\ pair.status = CLOSED
    /\ pair.pnl = -40
    /\ pair.chase_order_count = 0
    /\ Len(rm.risk_events) = 1
    /\ rm.risk_events[1].rule = "DailyLoss"
    /\ rm.risk_events[1].message = << "Daily loss", -40, 30 >>
    /\ rm.rules[3].daily_pnl = -40 /\ rm.rules[3].violations = 1

\* at most one thread is inside a block under the lock
MutualExclusion ==
    \A t \in Threads, u \in Threads :
        (pc[t].at = "critical" /\ pc[u].at = "critical") => t = u

\* thread t leaves the block of a call of method op in this step
Leaves(t, op) ==
    /\ pc[t].at = "critical" /\ pc[t].call.op = op
    /\ pc'[t].at = "idle"

\* C26: the blocks of update_tick, on_trade, set_parameters and get_status
\* run under the lock never overlap; every step of the strategy that changes
\* the pair or its snapshot (every change but a direct SpreadData.update
\* with two quotes) is made by the thread that holds the lock, leaving its
\* block; and when get_status returns no other thread is inside a block.
C26_CriticalSectionsSerialized ==
    /\ []MutualExclusion
    /\ [][(pair' # pair \/ (spread' # spread /\ ~Quote))
            => (/\ lock \in Threads
                /\ pc[lock].at = "critical"
                /\ pc'[lock].at = "idle")
         ]_vars
    /\ [][\A t \in Threads :
            Leaves(t, "get_status")
            => \A u \in Threads \ {t} : pc[u].at # "critical"
         ]_vars

\* C26 witness: with one leg of an opening pair filled, on_trade holds the
\* lock for the other leg while update_tick and get_status wait for it
C26_Witness ==
    /\ pair.status = OPENING
    /\ pair.bybit_trade_filled /\ ~pair.binance_trade_filled
    /\ lock = "fills" /\ pc["fills"].at = "critical"
    /\ pc["fills"].call.platform = "binance"
    /\ pc["ticks"].at = "waiting"
    /\ pc["api"].at = "waiting" /\ pc["api"].call.op = "get_status"

\* C35: in every reachable state a positive chase_order_count or a set
\* unilateral_trade_flag implies that the status is OPENING or CLOSING and
\* that exactly one of the two fill flags is set.
C35_ChaseSubStateOnlyInFlight ==
    (pair.chase_order_count > 0 \/ pair.unilateral_trade_flag)
    => /\ pair.status \in {OPENING, CLOSING}
       /\ pair.bybit_trade_filled # pair.binance_trade_filled

\* C35 witness: after a chase, one leg of the pair in flight filled
C35_Witness ==
    /\ pair.chase_order_count > 0 /\ pair.unilateral_trade_flag
    /\ pair.status = CLOSING
    /\ pair.binance_trade_filled /\ ~pair.bybit_trade_filled

\* C36: in every reachable state the status IDLE implies that both recorded
\* venue positions are zero.
C36_IdleHoldsNoPosition ==
    pair.status = IDLE
    => (pair.bybit_position = 0 /\ pair.binance_position = 0)

\* the objects as the next handler finds them, d seconds after a handler
\* left them as st
After(st, d) == [st EXCEPT !.calls = <<>>, !.exc = "none", !.now = @ + d]

\* the direction of the order of cs sent to the account
DirectionFor(cs, account_id) ==
    LET Sent == SelectSeq(NewOrders(cs), LAMBDA c : c.account_id = account_id)
    IN Sent[1].direction

\* the account of the venue
AccountOf(platform) ==
    IF platform = "bybit" THEN BYBIT_ACCOUNT ELSE BINANCE_ACCOUNT

\* the chase order that follows, after the timeout, the order pair sent by
\* the handler that left st1 and the fill of the other venue's leg has the
\* direction of the order it replaces
ChaseKeepsDirection(st1, filled, unfilled, position, rets) ==
    LET st3 == update_tick(After(on_trade(After(st1, 0), filled, position),
                                 st1.strategy.trade_timeout),
                           "other", CHOOSE t \in Ticks : TRUE, rets)
    IN st3.pair.chase_order_count = 1
       => /\ Len(NewOrders(st3.calls)) = 1
          /\ NewOrders(st3.calls)[1].account_id = AccountOf(unfilled)
          /\ NewOrders(st3.calls)[1].direction
               = DirectionFor(st1.calls, AccountOf(unfilled))

\* C32: a chase order has the direction of the order of the unfilled leg it
\* replaces: from every reachable IDLE or OPENED state, when a tick sends
\* the opening or closing order pair, one leg fills and the timeout passes,
\* the chase order on the other venue has the direction of that venue's
\* order of the pair.
C32_ChaseKeepsDirection ==
    \A tick \in Ticks, rets \in AllReturns, position \in TradePositions :
      LET st1 == update_tick(Cur, "other", tick, rets)
      IN (/\ pair.status \in {IDLE, OPENED}
          /\ st1.pair.status \in {OPENING, CLOSING}
          /\ Len(NewOrders(st1.calls)) = 2)
         => /\ ChaseKeepsDirection(st1, "bybit", "binance", position, rets)
            /\ ChaseKeepsDirection(st1, "binance", "bybit", position, rets)

\* C34: after a chase order is submitted, a tick that arrives before a
\* further trade_timeout has elapsed submits no other chase order.
C34_OneChasePerTimeoutPeriod ==
    \A tick \in Ticks, rets \in AllReturns :
      LET st1 == update_tick(Cur, "other", tick, rets)
      IN (/\ pair.status \in {OPENING, CLOSING}
          /\ st1.pair.chase_order_count = pair.chase_order_count + 1)
         => \A d \in 0..(st1.strategy.trade_timeout - 1) :
              LET st2 == update_tick(After(st1, d), "other", tick, rets)
              IN /\ st2.pair.chase_order_count = st1.pair.chase_order_count
                 /\ NewOrders(st2.calls) = <<>>

\* the limit of the manager's enabled MaxPositionRiskRule rules
PositionLimits ==
    { rm.rules[i].limit :
        i \in { j \in 1..Len(rm.rules) :
                  rm.rules[j].kind = "MaxPosition" /\ rm.rules[j].enabled } }

\* the position recorded for the account's venue
PositionOf(account_id) ==
    IF account_id = BYBIT_ACCOUNT THEN pair.bybit_position
    ELSE pair.binance_position

\* C40: with the manager enabled and holding an enabled MaxPositionRiskRule
\* of limit L, an update_tick in IDLE sends no order to a venue whose
\* recorded position is, in magnitude, at or above L.
C40_NoOpenAtPositionLimit ==
    [][\A platform \in Platforms, tick \in Ticks, rets \in AllReturns,
          account_id \in {BYBIT_ACCOUNT, BINANCE_ACCOUNT} :
         (/\ strategy.enabled /\ pair.status = IDLE /\ rm.enabled
          /\ UpdateTickCall(platform, tick, rets)
          /\ \E L \in PositionLimits : Abs(PositionOf(account_id)) >= L)
         => \A i \in 1..Len(calls') :
              ~(calls'[i].account_id = account_id
                /\ calls'[i].direction # "cancel")
      ]_vars

\* C33: in every reachable state chase_order_count is at most the
\* strategy's max_chase_count parameter.
C33_ChaseCountWithinParameter ==
    pair.chase_order_count <= strategy.max_chase_count

\* C39: from the return of stop() until the next start(), that is while
\* enabled and running are both false, no step changes a field of the pair
\* or submits an order, whatever calls were in progress when stop() ran.
C39_StoppedStrategyIsInert ==
    [][(/\ ~strategy.enabled /\ ~strategy.running
        /\ ~strategy'.enabled /\ ~strategy'.running)
         => (pair' = pair /\ NewOrders(calls') = <<>>)
      ]_vars

\* C37: no thread waits for the strategy lock while holding it: an
\* update_tick whose order callback delivers the fill notification to the
\* strategy's on_trade before returning is not left waiting for itself with
\* the lock held.
C37_NoSelfDeadlock ==
    \A t \in Threads : ~(lock = t /\ pc[t].at = "reentering")

\* the manager as configure_default_rules leaves it for the configuration
Configured(config) ==
    configure_default_rules(RiskManager_init, config, today)

\* C38: a check made while configure_default_rules runs finds the complete
\* old or the complete new rule list: an order or a chase that both the old
\* configuration (the deployment's) and the new one (the default) deny is
\* denied by the manager in every reachable state.
C38_ChecksSeeCompleteRuleList ==
    /\ \A account_id \in Accounts, order_size \in OrderSizes,
          current_position \in CurrentPositions :
         (/\ ~check_order(Configured(TightLossConfig), account_id, order_size,
                          current_position, now, today).passed
          /\ ~check_order(Configured(DefaultRiskConfig), account_id,
                          order_size, current_position, now, today).passed)
         => ~check_order(rm, account_id, order_size, current_position,
                         now, today).passed
    /\ \A account_id \in Accounts, chase_count \in ChaseCounts :
         (/\ ~check_chase_order(Configured(TightLossConfig), account_id,
                                chase_count, now, today).passed
          /\ ~check_chase_order(Configured(DefaultRiskConfig), account_id,
                                chase_count, now, today).passed)
         => ~check_chase_order(rm, account_id, chase_count, now, today).passed

\* C31: the event history never holds more than max_event_history events and
\* is the most recent denied checks in the order they were made: a denied
\* check appends its event, and the oldest event is dropped exactly when the
\* history was full. With one denied check per second, the history is the
\* events of the last seconds, one each.
C31_HistoryKeepsMostRecent ==
    /\ [](/\ Len(rm.risk_events) <= MAX_EVENT_HISTORY
          /\ Len(rm.risk_events)
               = (IF now < MAX_EVENT_HISTORY THEN now ELSE MAX_EVENT_HISTORY)
          /\ \A i \in 1..Len(rm.risk_events) :
                rm.risk_events[i].timestamp = now - Len(rm.risk_events) + i)
    /\ [][LateOrder
            => LET old == rm.risk_events
                   new == rm'.risk_events
               IN /\ new[Len(new)].timestamp = now'
                  /\ new[Len(new)].rule = "MaxOrderSize"
                  /\ SubSeq(new, 1, Len(new) - 1)
                       = (IF Len(old) < MAX_EVENT_HISTORY THEN old
                          ELSE Tail(old))
         ]_vars

\* C31 witness: 103 checks were denied, the history holds the last 100
C31_Witness ==
    /\ now = MAX_EVENT_HISTORY + 3
    /\ Len(rm.risk_events) = MAX_EVENT_HISTORY
    /\ rm.risk_events[1].timestamp = 4
    /\ rm.rules[2].violations = MAX_EVENT_HISTORY + 3

=============================================================================
